---- MODULE Spec2Model ----
(***************************************************************************)
(* Model of the OAuth 2.1 authorization subsystem of the MCP TypeScript    *)
(* template: the OAuthProvider grant and access-token stores               *)
(* (src/auth/oauth-provider.ts), the proxy-mode route handlers             *)
(* (src/auth/routes.ts) and the BuiltinTokenValidator                      *)
(* (src/auth/token-validator.ts).                                          *)
(*                                                                         *)
(* Node runs every handler on one thread: a handler runs without           *)
(* interruption up to its next await, so each action below is one such     *)
(* uninterrupted segment.  Time is the millisecond clock Date.now().       *)
(* Random identifiers (randomBytes) are modelled as fresh: a generated     *)
(* requestId, authorization code or access token never equals one          *)
(* generated before.                                                       *)
(***************************************************************************)
EXTENDS Integers, Sequences, FiniteSets, TLC

\* ------------------------------------------------------------------ bounds
\* How many times the clock advances in a behaviour.
MaxTicks == 1
\* How many grants are stored (storeAuthorizationCode calls) in a behaviour.
MaxGrants == 2
\* How many BuiltinTokenValidator.storeToken calls in a behaviour.
MaxStores == 2

\* --------------------------------------------------------- program constants
\* routes.ts:106  expiresAt: new Date(Date.now() + 10 * 60 * 1000)
PendingTTL == 600000
\* routes.ts:252  expiresAt: new Date(Date.now() + 10 * 60 * 1000)
GrantTTL == 600000
\* oauth-provider.ts:159  new Date(Date.now() + 60 * 60 * 1000)
TokenTTL == 3600000
\* oauth-provider.ts:160  const expiresIn = 3600
ExpiresIn == 3600
\* token-validator.ts:127  setTimeout: Node runs a timer whose delay is below
\* 1 or above 2^31 - 1 milliseconds with a delay of 1.
TimeoutMax == 2147483647

\* ------------------------------------------------------------ input domains
\* The authorization flows of the model: /authorize is accepted once per
\* flow, client A's flow first, client B's second.
Flows == {1, 2}
\* Codes presented through the public API (the test suite's "code123", "code456");
\* codes minted by /callback are the positive grant numbers 1, 2, ...
ApiCodes == {123, 456}
\* A code that was never stored, and a state (requestId) that /authorize
\* never generated.
UnknownCodes == {999}
UnknownStates == {999}
\* What a caller of the exchange presents: <<verifier, client_id,
\* redirect_uri>>.  Against a grant of client A (challenge S256("V1"), RA)
\* these are: all right; only the verifier wrong; only the redirect_uri
\* wrong; only the client wrong; all wrong (and right for client B's grant,
\* challenge S256("V2"), RB).
Presented == { <<"V1", "A", "RA">>, <<"V2", "A", "RA">>, <<"V1", "A", "RB">>,
               <<"V1", "B", "RA">>, <<"V2", "B", "RB">> }
\* Lifetime offsets of grants stored through the public API (test suite:
\* Date.now() + 60000; an already expired record: Date.now() - 1000), and a
\* grant that expires at the very millisecond it is stored.
ApiExpiryOffsets == {-1000, 0, 60000}

\* createHash("sha256").update(v).digest("base64url"): the real digests of
\* the clients' verifiers, and a symbolic digest of any other string.
S256(v) ==
    CASE v = "V1" -> "2ulvwARqWuGGTZpm5nFdqNoIJA5xGYFqtyImHAdE2Og"
      [] v = "V2" -> "R8_l64raDnSS2GprR9yT41TDKvSjz0ieDGUGfLSCd9k"
      [] OTHER -> "S256(" \o v \o ")"

\* A challenge that is the digest of no verifier of the model (test suite:
\* codeChallenge = "challenge").
BogusChallenge == "challenge"

\* ------------------------------------------------------------------- values
\* JavaScript null / undefined results and absent optional fields.
Null == [isNull |-> TRUE]
NoTokens == [present |-> FALSE]
NoCall == [op |-> "none"]

VARIABLES
    component,          \* which object the behaviour drives (see Init)
    now,                \* Date.now()
    ticks,              \* how many times the clock advanced
    pendingRequests,    \* routes.ts: Map requestId -> PendingAuthRequest
    authorizationCodes, \* OAuthProvider.#authorizationCodes
    accessTokens,       \* OAuthProvider.#accessTokens
    nReqs,              \* requestIds generated so far
    nGrants,            \* grants stored so far (the grant's identity, gid)
    nTokens,            \* access tokens generated so far
    cb,                 \* /callback requests in flight
    last,               \* the last call made and what it answered
    issued,             \* history: access token -> the grant it was issued for
    redeemed,           \* history: codes exchanged and not stored again since
    minted,             \* history: grants minted by /callback
    tokens,             \* BuiltinTokenValidator.#tokens
    timers,             \* BuiltinTokenValidator: pending setTimeout callbacks
    nStores,            \* storeToken calls so far
    stored,             \* history: token -> what storeToken last stored for it
    calls,              \* the last two BuiltinTokenValidator.validateToken calls
    env,                \* process.env
    config,             \* config.ts: the module's cached configuration
    authMiddleware,     \* the authentication middleware in use
    transports,         \* index.ts: the session ids of the MCP transports
    ov                  \* the OAuthTokenValidator.validateToken call in progress

vars == <<component, now, ticks, pendingRequests, authorizationCodes,
          accessTokens, nReqs, nGrants, nTokens, cb, last,
          issued, redeemed, minted, tokens, timers, nStores, stored,
          calls, env, config, authMiddleware, transports, ov>>

\* The routes' own state, the provider's stores, and the history variables.
routeVars == <<pendingRequests, nReqs, cb, minted>>
storeVars == <<authorizationCodes, accessTokens, nGrants, nTokens, issued,
               redeemed>>
builtinVars == <<tokens, timers, nStores, stored, calls>>
appVars == <<authMiddleware, transports>>

CbIds == {1, 2}

\* f with key k removed (Map.prototype.delete).
MapDelete(f, k) == [x \in DOMAIN f \ {k} |-> f[x]]
\* f with key k set to v (Map.prototype.set).
MapSet(f, k, v) == [x \in DOMAIN f \cup {k} |-> IF x = k THEN v ELSE f[x]]
\* What the store held under key k when a call was made (history only).
Lookup(f, k) == IF k \in DOMAIN f THEN [found |-> TRUE, data |-> f[k]]
                ELSE [found |-> FALSE]

\* process.env: the variables getConfig reads ("" is an unset variable).
EnvDomain ==
    [AUTH_MODE |-> {"", "none", "full", "resource_server", "invalid"},
     NODE_ENV |-> {"", "staging"},
     LOG_LEVEL |-> {"", "verbose"},
     OAUTH_ISSUER |-> {"", "https://issuer.example.com"},
     OAUTH_CLIENT_ID |-> {"", "client-id"},
     OAUTH_CLIENT_SECRET |-> {"", "client-secret"},
     OAUTH_AUDIENCE |-> {"", "mcp-server"}]
EmptyEnv == [name \in DOMAIN EnvDomain |-> ""]

\* config.ts:124  let config: undefined until a getConfig call succeeds;
\* Exited is the process after process.exit(1).
Unset == [state |-> "unset"]
Loaded(value) == [state |-> "loaded", value |-> value]
Exited == [state |-> "exited", code |-> 1]

\* index.ts:169-180  the authentication middleware the application wires
\* at start-up: with authentication enabled the OAuthProvider has been
\* constructed (L136-145), so the provider's middleware is the one used.
WiredMiddleware(enableAuth) ==
    LET hasProvider == enableAuth IN
    IF enableAuth /\ hasProvider THEN "provider"
    ELSE IF enableAuth THEN "validator"
    ELSE "passthrough"

\* The express server (routes and provider), the OAuthProvider driven through
\* its public API as the test suite drives it, the BuiltinTokenValidator,
\* the OAuthTokenValidator, the configuration module (with the middleware
\* auth/index.ts creates from it) and the /mcp endpoint of the application
\* are separate set-ups: a behaviour is a run of one of them.
Init ==
    /\ component \in {"server", "provider", "builtin", "validator", "config",
                      "mcp"}
    /\ env = EmptyEnv
    /\ config = Unset
    /\ IF component = "mcp"
       THEN \E enableAuth \in BOOLEAN :
               authMiddleware = WiredMiddleware(enableAuth)
       ELSE authMiddleware = "unset"
    /\ transports = {}
    /\ now = 0
    /\ ticks = 0
    /\ pendingRequests = <<>>
    /\ authorizationCodes = <<>>
    /\ accessTokens = <<>>
    /\ nReqs = 0
    /\ nGrants = 0
    /\ nTokens = 0
    /\ cb = [p \in CbIds |-> [pc |-> "idle"]]
    /\ last = NoCall
    /\ issued = <<>>
    /\ redeemed = {}
    /\ minted = {}
    /\ tokens = <<>>
    /\ timers = {}
    /\ nStores = 0
    /\ stored = <<>>
    /\ calls = <<>>
    /\ ov = [pc |-> "idle"]

\* A call is made once the answer of the previous one has been taken: last
\* holds the answer of the call just made, and is empty otherwise.
Idle == last = NoCall

\* The caller takes the answer.
Return ==
    /\ last # NoCall
    /\ last' = NoCall
    /\ UNCHANGED <<ov, component, env, config, appVars, now, ticks, routeVars, storeVars, builtinVars>>

\* The instants at which something expires or a timer is due.
Deadlines ==
    {pendingRequests[r].expiresAt : r \in DOMAIN pendingRequests}
    \cup {cb[p].originalRequest.expiresAt : p \in {x \in CbIds : cb[x].pc = "awaiting"}}
    \cup {authorizationCodes[c].expiresAt : c \in DOMAIN authorizationCodes}
    \cup {accessTokens[t].expiresAt : t \in DOMAIN accessTokens}
    \cup {tokens[t].expiresAt : t \in DOMAIN tokens}
    \cup {t.fireAt : t \in timers}

\* The clock advances to the millisecond after a deadline: something has
\* just expired, or a timer is just overdue.
Tick ==
    /\ Idle
    /\ ticks < MaxTicks
    /\ \E e \in Deadlines : e + 1 > now /\ now' = e + 1
    /\ ticks' = ticks + 1
    /\ calls' = <<>>
    /\ UNCHANGED <<ov, component, env, config, appVars, routeVars, storeVars, last, tokens,
                   timers, nStores, stored>>


\* ------------------------------------------------------------ OAuthProvider

\* A faulty storeAuthorizationCode that keeps a grant already stored under
\* the code.
StoreAuthorizationCodeIfAbsent(code, data) ==
    /\ authorizationCodes' =
         IF code \in DOMAIN authorizationCodes THEN authorizationCodes
         ELSE MapSet(authorizationCodes, code, [data EXCEPT !.gid = nGrants + 1])
    /\ nGrants' = nGrants + 1
    /\ redeemed' = redeemed \ {code}

\* oauth-provider.ts:78  storeAuthorizationCode: an unconditional Map.set.
\* gid numbers the stored grants (history only: the code never reads it).
StoreAuthorizationCode(code, data) ==
    /\ authorizationCodes' =
         MapSet(authorizationCodes, code, [data EXCEPT !.gid = nGrants + 1])
    /\ nGrants' = nGrants + 1
    /\ redeemed' = redeemed \ {code}

\* oauth-provider.ts:90  storeAuthorizationCodeWithTokens: the grant with
\* userId and the IdP's tokens attached, then storeAuthorizationCode.
StoreAuthorizationCodeWithTokens(code, data, externalTokens, userId) ==
    StoreAuthorizationCode(code,
        [data EXCEPT !.userId = userId,
                     !.externalTokens =
                        [present |-> TRUE,
                         accessToken |-> externalTokens.accessToken,
                         expiresAt |-> now + externalTokens.expiresIn * 1000]])

\* A faulty verifyPKCE that compares the verifier itself (the "plain" method).
verifyPKCEPlain(codeVerifier, codeChallenge) == codeVerifier = codeChallenge

\* A faulty verifyPKCE that accepts every verifier.
verifyPKCEAny(codeVerifier, codeChallenge) == TRUE

\* oauth-provider.ts:190  verifyPKCE
verifyPKCE(codeVerifier, codeChallenge) == S256(codeVerifier) = codeChallenge

\* A faulty expiry test that counts the instant expiresAt itself as expired.
ExpiredAtInstant(expiresAt) == expiresAt <= now

\* oauth-provider.ts:134, 206; routes.ts:209  x.expiresAt < new Date()
Expired(expiresAt) == expiresAt < now

\* A faulty binding check that forgets the redirect_uri.
BindingMismatchClientOnly(codeData, clientId, redirectUri) ==
    codeData.clientId # clientId

\* oauth-provider.ts:141  the client_id / redirect_uri check.
BindingMismatch(codeData, clientId, redirectUri) ==
    codeData.clientId # clientId \/ codeData.redirectUri # redirectUri

\* Faulty checks that verify PKCE before the client_id / redirect_uri binding.
ExchangeOutcomePkceFirst(code, codeVerifier, clientId, redirectUri) ==
    IF code \notin DOMAIN authorizationCodes THEN "unknown"
    ELSE LET codeData == authorizationCodes[code] IN
         IF Expired(codeData.expiresAt) THEN "expired"
         ELSE IF ~verifyPKCE(codeVerifier, codeData.codeChallenge) THEN "pkce"
         ELSE IF BindingMismatch(codeData, clientId, redirectUri) THEN "mismatch"
         ELSE "issued"

\* oauth-provider.ts:127-155  the checks of exchangeAuthorizationCode, in the
\* code's order; the first that fails names the outcome.
ExchangeOutcome(code, codeVerifier, clientId, redirectUri) ==
    IF code \notin DOMAIN authorizationCodes THEN "unknown"
    ELSE LET codeData == authorizationCodes[code] IN
         IF Expired(codeData.expiresAt) THEN "expired"
         ELSE IF BindingMismatch(codeData, clientId, redirectUri) THEN "mismatch"
         ELSE IF ~verifyPKCE(codeVerifier, codeData.codeChallenge) THEN "pkce"
         ELSE "issued"

\* oauth-provider.ts:129, 136, 142, 151, 174  the message the call logs.
ExchangeLog(outcome) ==
    CASE outcome = "unknown" -> "Invalid authorization code"
      [] outcome = "expired" -> "Expired authorization code"
      [] outcome = "mismatch" -> "Authorization code validation failed"
      [] outcome = "pkce" -> "PKCE verification failed"
      [] OTHER -> "Access token issued"

\* oauth-provider.ts:150  verifyPKCE is called only by a call that the three
\* earlier checks have let through.
PkceEvaluated(outcome) == outcome \in {"pkce", "issued"}

\* What a recorded exchange call did on its way: the message it logged and
\* whether it evaluated the verifier.
ExchangeTrace(code, codeVerifier, clientId, redirectUri) ==
    LET outcome == ExchangeOutcome(code, codeVerifier, clientId, redirectUri) IN
    [log |-> ExchangeLog(outcome), pkceEvaluated |-> PkceEvaluated(outcome)]

\* oauth-provider.ts:158  `mcp_${randomBytes(32).toString("hex")}`: the n-th
\* token generated (the random part is fresh each time).
GenerateAccessToken(n) == "mcp_" \o ToString(n)

\* A faulty token record that drops the IdP's tokens.
AccessTokenRecordBare(codeData) ==
    [userId |-> IF codeData.userId # "" THEN codeData.userId ELSE "user",
     scope |-> codeData.scope,
     expiresAt |-> now + TokenTTL,
     externalTokens |-> NoTokens]

\* oauth-provider.ts:159-169  the AccessTokenRecord stored for a grant
\* (userId: the grant's, or a generated one).
AccessTokenRecord(codeData) ==
    [userId |-> IF codeData.userId # "" THEN codeData.userId ELSE "user",
     scope |-> codeData.scope,
     expiresAt |-> now + TokenTTL,
     externalTokens |-> codeData.externalTokens]

\* oauth-provider.ts:180  the value exchangeAuthorizationCode returns.
ExchangeReturn(code, codeVerifier, clientId, redirectUri) ==
    IF ExchangeOutcome(code, codeVerifier, clientId, redirectUri) = "issued"
    THEN [isNull |-> FALSE, accessToken |-> GenerateAccessToken(nTokens + 1),
          expiresIn |-> ExpiresIn, scope |-> authorizationCodes[code].scope]
    ELSE Null

\* A faulty redemption that leaves the grant in the store.
ConsumeCodeKept(code) == authorizationCodes

\* A faulty expiry branch that leaves the expired grant in the store.
DropExpiredCodeKept(code) == authorizationCodes

\* oauth-provider.ts:172  this.#authorizationCodes.delete(code) on success.
ConsumeCode(code) == MapDelete(authorizationCodes, code)

\* oauth-provider.ts:135  this.#authorizationCodes.delete(code) on expiry.
DropExpiredCode(code) == MapDelete(authorizationCodes, code)

\* A faulty rejection that drops the grant it rejects.
RejectedCodeDropped(code) == MapDelete(authorizationCodes, code)

\* oauth-provider.ts:131, 147, 153  return null with no write to the store.
RejectedCode(code) == authorizationCodes

\* oauth-provider.ts:120-185  exchangeAuthorizationCode: the function has no
\* await inside, so its whole body is one uninterrupted step.
ExchangeAuthorizationCode(code, codeVerifier, clientId, redirectUri) ==
    LET outcome == ExchangeOutcome(code, codeVerifier, clientId, redirectUri) IN
    /\ CASE outcome = "expired" ->
              /\ authorizationCodes' = DropExpiredCode(code)
              /\ UNCHANGED <<accessTokens, nTokens, issued, redeemed>>
         [] outcome = "issued" ->
              LET codeData == authorizationCodes[code]
                  accessToken == GenerateAccessToken(nTokens + 1)
              IN
              /\ accessTokens' = MapSet(accessTokens, accessToken,
                                        AccessTokenRecord(codeData))
              /\ authorizationCodes' = ConsumeCode(code)
              /\ nTokens' = nTokens + 1
              /\ issued' = MapSet(issued, accessToken,
                     [gid |-> codeData.gid, codeVerifier |-> codeVerifier,
                      at |-> now, record |-> AccessTokenRecord(codeData)])
              /\ redeemed' = redeemed \cup {code}
         [] OTHER ->
              /\ authorizationCodes' = RejectedCode(code)
              /\ UNCHANGED <<accessTokens, nTokens, issued, redeemed>>
    /\ UNCHANGED nGrants

\* A faulty validateToken that accepts a token it has no record of.
ValidateResultNoRecord(token) ==
    IF token \notin DOMAIN accessTokens
    THEN [valid |-> TRUE, userId |-> "user", scope |-> "openid"]
    ELSE IF Expired(accessTokens[token].expiresAt) THEN [valid |-> FALSE]
    ELSE [valid |-> TRUE, userId |-> accessTokens[token].userId,
          scope |-> accessTokens[token].scope]

\* oauth-provider.ts:199-216  validateToken: the result ...
ValidateResult(token) ==
    IF token \notin DOMAIN accessTokens THEN [valid |-> FALSE]
    ELSE IF Expired(accessTokens[token].expiresAt) THEN [valid |-> FALSE]
    ELSE [valid |-> TRUE, userId |-> accessTokens[token].userId,
          scope |-> accessTokens[token].scope]

\* A faulty validateToken that leaves the expired record in the store.
ValidateStoreKept(token) == accessTokens

\* ... and the store after it: an expired record is deleted.
ValidateStore(token) ==
    IF token \in DOMAIN accessTokens /\ Expired(accessTokens[token].expiresAt)
    THEN MapDelete(accessTokens, token)
    ELSE accessTokens

\* oauth-provider.ts:228-244  cleanup: drops every expired code and token.
SweepCodes ==
    [c \in {x \in DOMAIN authorizationCodes :
              ~Expired(authorizationCodes[x].expiresAt)} |-> authorizationCodes[c]]

\* A faulty sweep that forgets the access tokens.
SweepTokensKept == accessTokens

SweepTokens ==
    [t \in {x \in DOMAIN accessTokens :
              ~Expired(accessTokens[x].expiresAt)} |-> accessTokens[t]]

\* ------------------------------------------------ authentication middleware

\* An Authorization header: absent, or "<scheme> <credentials>".
NoHeader == [present |-> FALSE]
Header(scheme, credentials) ==
    [present |-> TRUE, scheme |-> scheme, credentials |-> credentials]

\* middleware.ts:17  authHeader && authHeader.startsWith("Bearer ")
HasBearer(header) == header.present /\ header.scheme = "Bearer"

\* middleware.ts:24  authHeader.substring(7)
BearerToken(header) == header.credentials

\* No validateToken call was made.
NoValidation == [called |-> FALSE]

\* middleware.ts:18-21  the answer to a request without a bearer header.
Unauthorized ==
    [status |-> 401, error |-> "unauthorized",
     error_description |-> "Missing or invalid authorization header",
     nextCalls |-> 0, userId |-> "", accessToken |-> ""]

\* middleware.ts:55-81  createOptionalOAuthMiddleware: the variant that
\* passes every request on, authenticated or not.
AuthAnswerOptional(token, validation, thrown, description) ==
    [status |-> 0, error |-> "", error_description |-> "", nextCalls |-> 1,
     userId |-> IF ~thrown /\ validation.valid THEN validation.userId ELSE "",
     accessToken |-> IF ~thrown /\ validation.valid THEN token ELSE ""]

\* middleware.ts:26-48  what the middleware does with the outcome of
\* validateToken: 500 if it threw, 401 if the token is not valid, otherwise
\* req.userId and req.accessToken are set and next() is called (status 0:
\* the middleware sends no response).
AuthAnswer(token, validation, thrown, description) ==
    IF thrown
    THEN [status |-> 500, error |-> "server_error",
          error_description |-> "Internal server error during authentication",
          nextCalls |-> 0, userId |-> "", accessToken |-> ""]
    ELSE IF ~validation.valid
    THEN [status |-> 401, error |-> "invalid_token",
          error_description |-> description,
          nextCalls |-> 0, userId |-> "", accessToken |-> ""]
    ELSE [status |-> 0, error |-> "", error_description |-> "",
          nextCalls |-> 1, userId |-> validation.userId,
          accessToken |-> token]

\* createAuthMiddleware (auth/middleware.ts, the token-validator variant):
\* validation.error || "The access token is invalid or expired"
AuthDescription(validation) ==
    IF validation.error # "" THEN validation.error
    ELSE "The access token is invalid or expired"

\* What last records of a request that went through the middleware.
Authenticated(validator, header, validation, answer) ==
    [op |-> "middleware", validator |-> validator, header |-> header,
     validation |-> validation, answer |-> answer]

\* The bearer tokens presented: those issued so far and one never issued.
PresentedTokens == {GenerateAccessToken(n) : n \in 1..nTokens} \cup {"unknown"}

\* A call of OAuthProvider.validateToken (the authentication middleware's, or
\* a direct one).
ValidateToken(token) ==
    /\ Idle
    /\ component \in {"server", "provider"}
    /\ last' = [op |-> "validate", token |-> token,
                seen |-> Lookup(accessTokens, token),
                result |-> ValidateResult(token)]
    /\ accessTokens' = ValidateStore(token)
    /\ UNCHANGED <<ov, component, env, config, appVars, now, ticks, routeVars, authorizationCodes, nGrants,
                   nTokens, issued, redeemed, builtinVars>>

\* The caller of validateToken calls it again with the same token as soon as
\* the first call has answered: nothing else runs in between, and the clock
\* has not moved.  last keeps the first answer and the store as the first
\* call left it.
ValidateTokenAgain ==
    /\ last.op = "validate"
    /\ component \in {"server", "provider"}
    /\ last' = [op |-> "revalidate", token |-> last.token,
                first |-> last.result, between |-> accessTokens,
                seen |-> Lookup(accessTokens, last.token),
                result |-> ValidateResult(last.token)]
    /\ accessTokens' = ValidateStore(last.token)
    /\ UNCHANGED <<ov, component, env, config, appVars, now, ticks, routeVars, authorizationCodes,
                   nGrants, nTokens, issued, redeemed, builtinVars>>

\* The Authorization headers of the requests to the protected endpoint.
AuthHeaders ==
    {NoHeader, Header("Basic", "unknown")}
    \cup {Header("Bearer", t) : t \in PresentedTokens}

\* middleware.ts:13-50  createOAuthMiddleware(oauthProvider): validateToken
\* of the provider has no await inside, so the middleware goes on as a
\* microtask and the whole handler is one uninterrupted step.
Authenticate(header) ==
    /\ Idle
    /\ component \in {"server", "provider"}
    /\ IF ~HasBearer(header)
       THEN /\ last' = Authenticated("provider", header, NoValidation,
                                     Unauthorized)
            /\ UNCHANGED accessTokens
       ELSE LET token == BearerToken(header)
                validation == ValidateResult(token)
            IN
            /\ last' = Authenticated("provider", header,
                   [called |-> TRUE, seen |-> Lookup(accessTokens, token),
                    result |-> validation],
                   AuthAnswer(token, validation, FALSE,
                              "The access token is invalid or expired"))
            /\ accessTokens' = ValidateStore(token)
    /\ UNCHANGED <<ov, component, env, config, appVars, now, ticks, routeVars, authorizationCodes,
                   nGrants, nTokens, issued, redeemed, builtinVars>>

\* oauth-provider.ts:68  the periodic sweep: a timer callback, run between
\* two handlers; last lists what it removed.
Cleanup ==
    /\ Idle
    /\ component \in {"server", "provider"}
    /\ authorizationCodes' = SweepCodes
    /\ accessTokens' = SweepTokens
    /\ last' = [op |-> "cleanup",
                codes |-> DOMAIN authorizationCodes \ DOMAIN SweepCodes,
                tokens |-> DOMAIN accessTokens \ DOMAIN SweepTokens]
    /\ UNCHANGED <<ov, component, env, config, appVars, now, ticks, routeVars, nGrants, nTokens, issued,
                   redeemed, builtinVars>>

\* The grants the public API stores in the model (the test suite's shapes:
\* a real S256 challenge, and the string "challenge").
ApiGrants ==
    { [clientId |-> "A", redirectUri |-> "RA", scope |-> "openid",
       codeChallenge |-> S256("V1"), codeChallengeMethod |-> "S256",
       expiresAt |-> now + off, externalTokens |-> NoTokens, userId |-> "",
       gid |-> 0] : off \in ApiExpiryOffsets }
    \cup
    { [clientId |-> "B", redirectUri |-> "RB", scope |-> "openid",
       codeChallenge |-> BogusChallenge, codeChallengeMethod |-> "S256",
       expiresAt |-> now + 60000, externalTokens |-> NoTokens, userId |-> "",
       gid |-> 0] }

\* A direct call of OAuthProvider.storeAuthorizationCode.
ApiStoreAuthorizationCode(code, data) ==
    /\ Idle
    /\ component = "provider"
    /\ nGrants < MaxGrants
    /\ StoreAuthorizationCode(code, data)
    /\ last' = [op |-> "store", code |-> code,
                seen |-> Lookup(authorizationCodes, code),
                wasRedeemed |-> code \in redeemed]
    /\ UNCHANGED <<ov, component, env, config, appVars, now, ticks, routeVars, accessTokens, nTokens,
                   issued, builtinVars>>

\* A direct call of OAuthProvider.exchangeAuthorizationCode.
ApiExchangeAuthorizationCode(code, codeVerifier, clientId, redirectUri) ==
    /\ Idle
    /\ component = "provider"
    /\ ExchangeAuthorizationCode(code, codeVerifier, clientId, redirectUri)
    /\ last' = [op |-> "exchange", code |-> code,
                codeVerifier |-> codeVerifier, clientId |-> clientId,
                redirectUri |-> redirectUri,
                seen |-> Lookup(authorizationCodes, code),
                trace |-> ExchangeTrace(code, codeVerifier, clientId, redirectUri),
                result |-> ExchangeReturn(code, codeVerifier, clientId, redirectUri)]
    /\ UNCHANGED <<ov, component, env, config, appVars, now, ticks, routeVars, builtinVars>>


\* ------------------------------------------------------------------ routes

\* config.ts  the routes are registered only when authentication is enabled.
ENABLE_AUTH == TRUE

\* The /authorize queries of the model ("" is an absent parameter).
AuthorizeQuery(rt, cid, ruri, st, ch, m) ==
    [response_type |-> rt, client_id |-> cid, redirect_uri |-> ruri,
     scope |-> "", state |-> st, code_challenge |-> ch,
     code_challenge_method |-> m]

\* The complete query of each flow: flow 1 is client A's (verifier "V1",
\* state "sA"), flow 2 is client B's (verifier "V2", no state).
FlowQuery(flow) ==
    IF flow = 1 THEN AuthorizeQuery("code", "A", "RA", "sA", S256("V1"), "S256")
    ELSE AuthorizeQuery("code", "B", "RB", "", S256("V2"), "S256")

\* The /authorize queries of the model: the next flow's, and incomplete ones
\* (the last two fail two checks at once).
AuthorizeQueries ==
    { FlowQuery(nReqs + 1),
      AuthorizeQuery("token", "", "RA", "sA", S256("V1"), "S256"),
      AuthorizeQuery("code", "", "RA", "sA", "", "S256"),
      AuthorizeQuery("token", "A", "RA", "sA", S256("V1"), "S256"),
      AuthorizeQuery("code", "", "RA", "sA", S256("V1"), "S256"),
      AuthorizeQuery("code", "A", "", "sA", S256("V1"), "S256"),
      AuthorizeQuery("code", "A", "RA", "sA", "", "S256"),
      AuthorizeQuery("code", "A", "RA", "sA", S256("V1"), "plain") }

\* Faulty checks of /authorize that accept any code_challenge_method.
AuthorizeErrorAnyMethod(q) ==
    IF ~ENABLE_AUTH THEN "server_error"
    ELSE IF q.response_type # "code" THEN "unsupported_response_type"
    ELSE IF q.client_id = "" \/ q.redirect_uri = "" THEN "invalid_request"
    ELSE IF q.code_challenge = "" THEN "invalid_request"
    ELSE ""

\* Faulty checks of /authorize that look at client_id and redirect_uri first.
AuthorizeErrorClientFirst(q) ==
    IF ~ENABLE_AUTH THEN "server_error"
    ELSE IF q.client_id = "" \/ q.redirect_uri = "" THEN "invalid_request"
    ELSE IF q.response_type # "code" THEN "unsupported_response_type"
    ELSE IF q.code_challenge = "" \/ q.code_challenge_method # "S256"
         THEN "invalid_request"
    ELSE ""

\* routes.ts:47-86  the checks of /authorize, in the code's order.
AuthorizeError(q) ==
    IF ~ENABLE_AUTH THEN "server_error"
    ELSE IF q.response_type # "code" THEN "unsupported_response_type"
    ELSE IF q.client_id = "" \/ q.redirect_uri = "" THEN "invalid_request"
    ELSE IF q.code_challenge = "" \/ q.code_challenge_method # "S256"
         THEN "invalid_request"
    ELSE ""

\* routes.ts:48-85  the error_description sent with each error of /authorize.
AuthorizeErrorDescription(q) ==
    IF ~ENABLE_AUTH THEN "Authentication not configured"
    ELSE IF q.response_type # "code"
         THEN "Only 'code' response type is supported"
    ELSE IF q.client_id = "" \/ q.redirect_uri = ""
         THEN "Missing required parameters: client_id, redirect_uri"
    ELSE "PKCE with S256 is required"

\* routes.ts:93  randomBytes(32).toString("base64url"), fresh per request.
ExternalCodeVerifier(requestId) == "srv" \o ToString(requestId)

\* routes.ts:36-148  GET /authorize (proxy mode).
Authorize(q) ==
    /\ Idle
    /\ component = "server"
    /\ LET err == AuthorizeError(q) IN
       IF err # ""
       THEN /\ last' = [op |-> "authorize",
                        status |-> IF err = "server_error" THEN 500 ELSE 400,
                        error |-> err,
                        error_description |-> AuthorizeErrorDescription(q)]
            /\ UNCHANGED <<pendingRequests, nReqs>>
       ELSE LET requestId == nReqs + 1
                finalState == IF q.state # "" THEN q.state ELSE "random"
                scope == IF q.scope # "" THEN q.scope ELSE "openid profile email"
                externalCodeVerifier == ExternalCodeVerifier(requestId)
                externalCodeChallenge == S256(externalCodeVerifier)
            IN
            /\ requestId \in Flows
            /\ pendingRequests' = MapSet(pendingRequests, requestId,
                   [clientId |-> q.client_id, redirectUri |-> q.redirect_uri,
                    scope |-> scope, state |-> finalState,
                    codeChallenge |-> q.code_challenge,
                    codeChallengeMethod |-> q.code_challenge_method,
                    expiresAt |-> now + PendingTTL,
                    externalCodeVerifier |-> externalCodeVerifier,
                    externalCodeChallenge |-> externalCodeChallenge])
            /\ nReqs' = nReqs + 1
            /\ last' = [op |-> "authorize", status |-> 302,
                        to |-> "idp", state |-> requestId,
                        code_challenge |-> externalCodeChallenge,
                        code_challenge_method |-> "S256", scope |-> scope]
    /\ UNCHANGED <<ov, component, env, config, appVars, now, ticks, cb, minted, storeVars,
                   builtinVars>>

\* The /callback queries of the model: state 0 and code "" are absent.
CallbackQueries ==
    { [code |-> "idpcode", state |-> st, error |-> ""] :
        st \in (1..nReqs) \cup UnknownStates }
    \cup { [code |-> "", state |-> 1, error |-> ""],
           [code |-> "idpcode", state |-> 0, error |-> ""],
           [code |-> "", state |-> 1, error |-> "access_denied"] }

\* routes.ts:164-185  the parameter checks of /callback.
CallbackParamError(q) ==
    IF q.error # "" THEN q.error
    ELSE IF q.code = "" \/ q.state = 0 THEN "invalid_request"
    ELSE ""

\* routes.ts:164-185  the error_description sent with a parameter error.
CallbackParamErrorDescription(q) ==
    IF q.error # "" THEN "OAuth authorization failed"
    ELSE "Missing authorization code or state"

\* A faulty /callback that never finds the looked-up request expired.
RequestExpiredNever(originalRequest) == FALSE

\* routes.ts:209  the expiry check of the looked-up request.
RequestExpired(originalRequest) == Expired(originalRequest.expiresAt)

\* A new request takes the lowest free slot (the slots are interchangeable).
FreeSlot(procs, p) ==
    /\ procs[p].pc = "idle"
    /\ \A r \in DOMAIN procs : r < p => procs[r].pc # "idle"

\* routes.ts:155-226  GET /callback up to the await of exchangeCodeForTokens.
CallbackStart(p, q) ==
    /\ Idle
    /\ component = "server"
    /\ FreeSlot(cb, p)
    /\ LET perr == CallbackParamError(q)
           requestId == q.state
       IN
       IF perr # ""
       THEN /\ last' = [op |-> "callback", status |-> 400,
                        error |-> perr,
                        error_description |-> CallbackParamErrorDescription(q)]
            /\ UNCHANGED <<pendingRequests, cb>>
       ELSE IF requestId \notin DOMAIN pendingRequests
       THEN /\ last' = [op |-> "callback", status |-> 400,
                        error |-> "invalid_request",
                        error_description |->
                            "Unknown or expired authorization request"]
            /\ UNCHANGED <<pendingRequests, cb>>
       ELSE IF RequestExpired(pendingRequests[requestId])
       THEN /\ pendingRequests' = MapDelete(pendingRequests, requestId)
            /\ last' = [op |-> "callback", status |-> 400,
                        error |-> "invalid_request",
                        error_description |->
                            "Authorization request has expired"]
            /\ UNCHANGED cb
       ELSE /\ cb' = [cb EXCEPT ![p] = [pc |-> "awaiting",
                         requestId |-> requestId,
                         originalRequest |-> pendingRequests[requestId]]]
            /\ UNCHANGED <<pendingRequests, last>>
    /\ UNCHANGED <<ov, component, env, config, appVars, now, ticks, nReqs, minted, storeVars,
                   builtinVars>>

\* routes.ts:303-368  exchangeCodeForTokens: the answer of the IdP's token
\* endpoint (an external party) decides the result; a non-OK answer, a
\* network error and an unparsable body all give null.
IdpOutcomes == {"tokens", "http_error", "network_error"}

\* A faulty exchangeCodeForTokens that does not look at response.ok.
ExchangeCodeForTokensUnchecked(outcome, codeVerifier) ==
    IF outcome # "network_error"
    THEN [isNull |-> FALSE, access_token |-> "ext-" \o codeVerifier,
          expires_in |-> ExpiresIn]
    ELSE Null

ExchangeCodeForTokens(outcome, codeVerifier) ==
    IF ENABLE_AUTH /\ outcome = "tokens"
    THEN [isNull |-> FALSE, access_token |-> "ext-" \o codeVerifier,
          expires_in |-> ExpiresIn]
    ELSE Null

\* A faulty /callback that binds the grant to the server's own challenge.
GrantChallengeExternal(originalRequest) == originalRequest.externalCodeChallenge

\* routes.ts:250  the challenge the minted grant is bound to.
GrantChallenge(originalRequest) == originalRequest.codeChallenge

\* A faulty /callback that sends the IdP the client's code_challenge.
IdpVerifierClient(originalRequest) == originalRequest.codeChallenge

\* routes.ts:228  the code_verifier handed to exchangeCodeForTokens, which
\* posts it to the IdP's token endpoint (L319).
IdpVerifier(originalRequest) == originalRequest.externalCodeVerifier

\* routes.ts:226-287  GET /callback from the moment exchangeCodeForTokens
\* resolves: the rest of the handler runs without another await.
CallbackResume(p, outcome) ==
    /\ Idle
    /\ component = "server"
    /\ cb[p].pc = "awaiting"
    /\ LET requestId == cb[p].requestId
           originalRequest == cb[p].originalRequest
           tokenResponse ==
               ExchangeCodeForTokens(outcome, IdpVerifier(originalRequest))
       IN
       IF tokenResponse.isNull
       THEN /\ pendingRequests' = MapDelete(pendingRequests, requestId)
            /\ last' = [op |-> "callback", status |-> 500,
                        error |-> "server_error",
                        error_description |->
                            "Failed to exchange authorization code for tokens",
                        requestId |-> requestId,
                        idpVerifier |-> IdpVerifier(originalRequest)]
            /\ UNCHANGED <<authorizationCodes, nGrants, redeemed, minted>>
       ELSE LET mcpAuthCode == nGrants + 1 IN
            /\ nGrants < MaxGrants
            /\ StoreAuthorizationCodeWithTokens(mcpAuthCode,
                   [clientId |-> originalRequest.clientId,
                    redirectUri |-> originalRequest.redirectUri,
                    scope |-> originalRequest.scope,
                    codeChallenge |-> GrantChallenge(originalRequest),
                    codeChallengeMethod |-> originalRequest.codeChallengeMethod,
                    expiresAt |-> now + GrantTTL,
                    externalTokens |-> NoTokens, userId |-> "", gid |-> 0],
                   [accessToken |-> tokenResponse.access_token,
                    expiresIn |-> tokenResponse.expires_in],
                   "external-user")
            /\ pendingRequests' = MapDelete(pendingRequests, requestId)
            /\ minted' = minted \cup
                   {[gid |-> nGrants + 1, requestId |-> requestId,
                     idpAnswer |-> outcome,
                     clientChallenge |-> originalRequest.codeChallenge,
                     requestExpired |-> originalRequest.expiresAt < now]}
            /\ last' = [op |-> "callback", status |-> 302,
                        to |-> originalRequest.redirectUri,
                        code |-> mcpAuthCode, state |-> originalRequest.state,
                        requestId |-> requestId,
                        idpVerifier |-> IdpVerifier(originalRequest)]
    /\ cb' = [cb EXCEPT ![p] = [pc |-> "idle"]]
    /\ UNCHANGED <<ov, component, env, config, appVars, now, ticks, nReqs, accessTokens, nTokens, issued,
                   builtinVars>>


\* The codes presented to POST /token: those minted so far (a code never
\* stored is presented in one way only: every way ends at the same lookup).
ServerCodes == 1..nGrants

\* discovery.ts:333-353  createRevocationHandler(oauthServer): the handler
\* hands the request to the revoke call of an OAuth2Server object (a
\* library, so the call may resolve or reject) and answers 200 or 400.  It
\* holds no reference to the OAuthProvider, whose #accessTokens is a private
\* field: the provider's stores are out of its reach.
RevocationOutcomes == {"resolved", "rejected"}

Revoke(token, outcome) ==
    /\ Idle
    /\ component = "server"
    /\ last' = [op |-> "revoke", token |-> token,
                status |-> IF outcome = "resolved" THEN 200 ELSE 400,
                error |-> IF outcome = "resolved" THEN "" ELSE "invalid_request"]
    /\ UNCHANGED <<ov, component, env, config, appVars, now, ticks, routeVars, storeVars,
                   builtinVars>>

\* The POST /token bodies of the model ("" and 0 are absent parameters).
TokenBodies ==
    { [grant_type |-> "authorization_code", code |-> c, code_verifier |-> x[1],
       client_id |-> x[2], redirect_uri |-> x[3]] :
        c \in ServerCodes, x \in Presented }
    \cup { [grant_type |-> "authorization_code", code |-> c,
             code_verifier |-> "V1", client_id |-> "A", redirect_uri |-> "RA"] :
               c \in UnknownCodes }
    \cup { [grant_type |-> "refresh_token", code |-> 1, code_verifier |-> "V1",
            client_id |-> "A", redirect_uri |-> "RA"],
           [grant_type |-> "authorization_code", code |-> 1, code_verifier |-> "",
            client_id |-> "A", redirect_uri |-> "RA"],
           [grant_type |-> "authorization_code", code |-> 0, code_verifier |-> "V1",
            client_id |-> "A", redirect_uri |-> "RA"],
           [grant_type |-> "authorization_code", code |-> 1, code_verifier |-> "V1",
            client_id |-> "", redirect_uri |-> "RA"],
           [grant_type |-> "authorization_code", code |-> 1, code_verifier |-> "V1",
            client_id |-> "A", redirect_uri |-> ""],
           [grant_type |-> "", code |-> 1, code_verifier |-> "V1",
            client_id |-> "A", redirect_uri |-> "RA"] }

\* Faulty parameter checks of /token that forget the code_verifier.
TokenErrorNoVerifier(body) ==
    IF body.grant_type # "authorization_code" THEN "unsupported_grant_type"
    ELSE IF body.code = 0 \/ body.client_id = "" \/ body.redirect_uri = ""
         THEN "invalid_request"
    ELSE ""

\* routes.ts:379-391  the parameter checks of /token.
TokenError(body) ==
    IF body.grant_type # "authorization_code" THEN "unsupported_grant_type"
    ELSE IF \/ body.code = 0 \/ body.code_verifier = ""
            \/ body.client_id = "" \/ body.redirect_uri = ""
         THEN "invalid_request"
    ELSE ""

\* routes.ts:373-429  POST /token.  exchangeAuthorizationCode has no await
\* inside, so the promise the handler awaits is already resolved and the
\* handler goes on as a microtask, before any other request is served: the
\* whole handler is one uninterrupted step.
TokenRequest(body) ==
    /\ Idle
    /\ component = "server"
    /\ LET err == TokenError(body) IN
       IF err # ""
       THEN /\ last' = [op |-> "token", status |-> 400, error |-> err]
            /\ UNCHANGED storeVars
       ELSE LET tokenResult == ExchangeReturn(body.code, body.code_verifier,
                                   body.client_id, body.redirect_uri) IN
            /\ ExchangeAuthorizationCode(body.code, body.code_verifier,
                                         body.client_id, body.redirect_uri)
            /\ last' = [op |-> "token",
                        status |-> IF tokenResult.isNull THEN 400 ELSE 200,
                        error |-> IF tokenResult.isNull THEN "invalid_grant" ELSE "",
                        code |-> body.code, codeVerifier |-> body.code_verifier,
                        clientId |-> body.client_id,
                        redirectUri |-> body.redirect_uri,
                        seen |-> Lookup(authorizationCodes, body.code),
                        trace |-> ExchangeTrace(body.code, body.code_verifier,
                                      body.client_id, body.redirect_uri),
                        result |-> tokenResult]
    /\ UNCHANGED <<ov, component, env, config, appVars, now, ticks, routeVars, builtinVars>>

\* --------------------------------------------------- BuiltinTokenValidator

BuiltinTokenNames == {"t1", "t2"}
\* Lifetime offsets of the tokens stored in the model (test suite:
\* Date.now() + 60000 and Date.now() - 1000).
BuiltinExpiryOffsets == {-1000, 60000}

\* token-validator.ts:127-129  the delay setTimeout really waits.
TimerDelay(expiresAt) ==
    LET delay == expiresAt - now IN
    IF delay < 1 \/ delay > TimeoutMax THEN 1 ELSE delay

\* token-validator.ts:124-130  storeToken: Map.set, and a timer that deletes
\* the token (whatever record it then holds) when it fires.
StoreToken(token, userId, expiresAt) ==
    /\ Idle
    /\ component = "builtin"
    /\ nStores < MaxStores
    /\ tokens' = MapSet(tokens, token, [userId |-> userId, expiresAt |-> expiresAt])
    /\ timers' = timers \cup {[id |-> nStores + 1, token |-> token,
                               fireAt |-> now + TimerDelay(expiresAt)]}
    /\ nStores' = nStores + 1
    /\ stored' = MapSet(stored, token, [userId |-> userId, expiresAt |-> expiresAt])
    /\ calls' = <<>>
    /\ UNCHANGED <<ov, component, env, config, appVars, now, ticks, routeVars, storeVars, last>>

\* token-validator.ts:127  a timer's callback runs, at its time or later.
TimerFire(t) ==
    /\ Idle
    /\ component = "builtin"
    /\ t \in timers
    /\ now >= t.fireAt
    /\ tokens' = MapDelete(tokens, t.token)
    /\ timers' = timers \ {t}
    /\ calls' = <<>>
    /\ UNCHANGED <<ov, component, env, config, appVars, now, ticks, routeVars, storeVars, last,
                   nStores, stored>>

\* token-validator.ts:132-156  validateToken: the result ...
BuiltinValidateResult(token) ==
    IF token \notin DOMAIN tokens THEN [valid |-> FALSE, error |-> "Token not found"]
    ELSE IF Expired(tokens[token].expiresAt)
         THEN [valid |-> FALSE, error |-> "Token expired"]
    ELSE [valid |-> TRUE, userId |-> tokens[token].userId]

\* A faulty validateToken that leaves the expired record in the store.
BuiltinValidateStoreKept(token) == tokens

\* ... and the store after it: an expired record is deleted.
BuiltinValidateStore(token) ==
    IF token \in DOMAIN tokens /\ Expired(tokens[token].expiresAt)
    THEN MapDelete(tokens, token)
    ELSE tokens

\* The last two entries of a call log.
LastTwo(log) == IF Len(log) > 2 THEN Tail(log) ELSE log

\* What the call log keeps of a validateToken call: whether the token was
\* stored and past its expiresAt, the result, and the store after the call.
CallEntry(token) ==
    [token |-> token,
     stored |-> token \in DOMAIN tokens,
     past |-> token \in DOMAIN tokens /\ tokens[token].expiresAt < now,
     result |-> BuiltinValidateResult(token),
     after |-> BuiltinValidateStore(token)]

\* A call of BuiltinTokenValidator.validateToken.  calls holds the last two
\* calls made with nothing else happening in between (any other step of
\* the validator, and the clock, empties it).
BuiltinValidateToken(token) ==
    /\ Idle
    /\ component = "builtin"
    /\ calls' = LastTwo(Append(calls, CallEntry(token)))
    /\ tokens' = BuiltinValidateStore(token)
    /\ UNCHANGED <<ov, component, env, config, appVars, now, ticks, routeVars, storeVars, last,
                   timers, nStores, stored>>

\* The Authorization headers presented to a BuiltinTokenValidator's middleware.
BuiltinAuthHeaders ==
    {NoHeader} \cup {Header("Bearer", t) : t \in BuiltinTokenNames}

\* createAuthMiddleware(tokenValidator) over a BuiltinTokenValidator, whose
\* validateToken has no await inside: one uninterrupted step.
BuiltinAuthenticate(header) ==
    /\ Idle
    /\ component = "builtin"
    /\ IF ~HasBearer(header)
       THEN /\ last' = Authenticated("builtin", header, NoValidation,
                                     Unauthorized)
            /\ UNCHANGED <<tokens, calls>>
       ELSE LET token == BearerToken(header)
                validation == BuiltinValidateResult(token)
            IN
            /\ last' = Authenticated("builtin", header,
                   [called |-> TRUE, result |-> validation],
                   AuthAnswer(token, validation, FALSE,
                              AuthDescription(validation)))
            /\ calls' = LastTwo(Append(calls, CallEntry(token)))
            /\ tokens' = BuiltinValidateStore(token)
    /\ UNCHANGED <<ov, component, env, config, appVars, now, ticks, routeVars, storeVars, timers,
                   nStores, stored>>

\* ------------------------------------------------------ OAuthTokenValidator

\* A bearer token as the sequence of its dot-separated segments
\* (token.split(".")): a JWT-shaped one, an opaque one, a two-segment one, a
\* three-segment one with a segment that is not base64url, a four-segment one.
OAuthTokens == { <<"header", "payload", "signature">>,
                 <<"opaque-token-123">>,
                 <<"invalid", "token">>,
                 <<"header", "pay+load", "signature">>,
                 <<"a", "b", "c", "d">> }

\* Whether a segment of the model's tokens is a non-empty string over the
\* base64url alphabet (A-Z, a-z, 0-9, "-", "_").
IsBase64Url(segment) == segment \notin {"", "pay+load"}
WellFormed(token) == \A k \in 1..Len(token) : IsBase64Url(token[k])

\* The audience the validator is constructed with ("" is none), and whether
\* its issuer string is a URL that new URL(path, issuer) accepts.
Audiences == {"", "test-audience"}

\* What jose.jwtVerify does: resolve, or reject with one of the errors the
\* handler names, or with any other error.
JwtOutcomes == {"ok", "JWTExpired", "JWTInvalid", "JWKSNoMatchingKey", "other"}
\* A token with a segment that is not base64url cannot be decoded, and so
\* never verifies.
JwtOutcomesOf(token) ==
    IF WellFormed(token) THEN JwtOutcomes ELSE JwtOutcomes \ {"ok"}

\* The identity claims of a JWT payload or of an introspection response
\* ("" is an absent claim).
IdentityClaims ==
    { [sub |-> "user789", user_id |-> "", username |-> ""],
      [sub |-> "", user_id |-> "user-id", username |-> ""],
      [sub |-> "", user_id |-> "", username |-> "username"],
      [sub |-> "user789", user_id |-> "user-id", username |-> "username"],
      [sub |-> "", user_id |-> "user-id", username |-> "username"] }

\* What fetch of the introspection endpoint does: reject, or resolve with a
\* response that is not OK, or with one that is.
FetchOutcomes == {"network_error", "not_ok", "ok"}

\* What response.json() gives: a rejection (unparsable body), or the body.
Unparsable == [unparsable |-> TRUE]
NoBody == [unparsable |-> FALSE, absent |-> TRUE]
IntrospectionBodies ==
    { Unparsable,
      [unparsable |-> FALSE, absent |-> FALSE, active |-> FALSE, aud |-> "",
       id |-> [sub |-> "", user_id |-> "", username |-> ""]] }
    \cup { [unparsable |-> FALSE, absent |-> FALSE, active |-> TRUE,
             aud |-> a, id |-> i] :
               a \in {"", "test-audience", "different-audience"},
               i \in IdentityClaims }

\* A faulty derivation that prefers username to the other claims.
UserIdOfUsernameFirst(claims) ==
    IF claims.username # "" THEN claims.username
    ELSE IF claims.user_id # "" THEN claims.user_id
    ELSE claims.sub

\* token-validator.ts:59, 115  sub || user_id || username
UserIdOf(claims) ==
    IF claims.sub # "" THEN claims.sub
    ELSE IF claims.user_id # "" THEN claims.user_id
    ELSE claims.username

\* What an async function settles to: a value, or a rejection.
Thrown == [thrown |-> TRUE]
Valid(userId) == [thrown |-> FALSE, valid |-> TRUE, userId |-> userId]
Invalid(error) == [thrown |-> FALSE, valid |-> FALSE, error |-> error]

\* A faulty validateToken without its try/catch.
OuterCatchNone(settled) == settled

\* token-validator.ts:23, 32-37  the try/catch of validateToken: a rejection
\* of validateJWT or introspectToken becomes a result.
OuterCatch(settled) ==
    IF settled.thrown THEN Invalid("Token validation failed") ELSE settled

\* A faulty handler that also sends a missing-key failure to introspection.
JwtFallsBackOnNoKey(outcome) == outcome \notin {"ok", "JWTExpired", "JWTInvalid"}

\* token-validator.ts:62-77  the catch of validateJWT: which failures of
\* jwtVerify go on to introspection.
JwtFallsBack(outcome) ==
    outcome \notin {"ok", "JWTExpired", "JWTInvalid", "JWKSNoMatchingKey"}

\* token-validator.ts:63-71  the results of the failures that do not.
JwtErrorResult(outcome) ==
    CASE outcome = "JWTExpired" -> Invalid("Token expired")
      [] outcome = "JWTInvalid" -> Invalid("Invalid token")
      [] OTHER -> Invalid("No matching key found")

\* A faulty introspection that wants the aud claim even with no audience
\* configured.
IntrospectResultStrict(body, audience) ==
    IF body.unparsable THEN Thrown
    ELSE IF ~body.active THEN Invalid("Token is not active")
    ELSE IF body.aud # audience THEN Invalid("Invalid audience")
    ELSE Valid(UserIdOf(body.id))

\* token-validator.ts:103-116  introspectToken after an OK response.
IntrospectResult(body, audience) ==
    IF body.unparsable THEN Thrown
    ELSE IF ~body.active THEN Invalid("Token is not active")
    ELSE IF audience # "" /\ body.aud # audience THEN Invalid("Invalid audience")
    ELSE Valid(UserIdOf(body.id))

\* A faulty classification that takes three or more segments for a JWT.
IsJWTAtLeastThree(token) == Len(token) >= 3

\* token-validator.ts:24  const isJWT = token.split('.').length === 3
IsJWT(token) == Len(token) = 3

\* validateToken settles: the caller gets the result; when the caller is the
\* middleware (the call came with a header), it answers the request.
OAuthSettle(call, settled) ==
    /\ last' = IF call.header.present
               THEN Authenticated("oauth", call.header,
                        [called |-> TRUE, result |-> OuterCatch(settled)],
                        AuthAnswer(call.token, OuterCatch(settled),
                                   OuterCatch(settled).thrown,
                                   AuthDescription(OuterCatch(settled))))
               ELSE [op |-> "oauthValidate", token |-> call.token,
                     audience |-> call.audience, jwt |-> call.jwt,
                     requests |-> call.requests, response |-> call.response,
                     body |-> call.body, result |-> OuterCatch(settled)]
    /\ ov' = [pc |-> "idle"]

\* token-validator.ts:22-30, 40-54, 80-82  validateToken up to its first
\* await: jwtVerify for a three-segment token, the introspection fetch for
\* any other; with an issuer that is no URL, new URL throws on either path
\* (in validateJWT the handler then goes on to introspectToken, where it
\* throws again).
OAuthBegin(token, audience, issuerOk, header) ==
    LET isJWT == IsJWT(token)
        call == [pc |-> IF isJWT THEN "jwtVerify" ELSE "fetch",
                 token |-> token, audience |-> audience, header |-> header,
                 jwt |-> IF isJWT /\ ~issuerOk THEN "url_error" ELSE "none",
                 requests |-> 0, response |-> "none", body |-> NoBody]
    IN IF issuerOk
       THEN ov' = call /\ UNCHANGED last
       ELSE OAuthSettle(call, Thrown)

\* A direct call of OAuthTokenValidator.validateToken.
OAuthValidateToken(token, audience, issuerOk) ==
    /\ Idle
    /\ component = "validator"
    /\ ov.pc = "idle"
    /\ OAuthBegin(token, audience, issuerOk, NoHeader)
    /\ UNCHANGED <<component, env, config, appVars, now, ticks, routeVars, storeVars, builtinVars>>

\* The Authorization headers presented to an OAuthTokenValidator's middleware.
OAuthAuthHeaders ==
    {NoHeader} \cup {Header("Bearer", t) : t \in OAuthTokens}

\* createAuthMiddleware(tokenValidator) over an OAuthTokenValidator: the
\* header check, then the await of validateToken (answered in OAuthSettle).
OAuthAuthenticate(header, audience, issuerOk) ==
    /\ Idle
    /\ component = "validator"
    /\ ov.pc = "idle"
    /\ IF ~HasBearer(header)
       THEN /\ last' = Authenticated("oauth", header, NoValidation,
                                     Unauthorized)
            /\ UNCHANGED ov
       ELSE OAuthBegin(BearerToken(header), audience, issuerOk, header)
    /\ UNCHANGED <<component, env, config, appVars, now, ticks, routeVars, storeVars, builtinVars>>

\* token-validator.ts:54-77  jose.jwtVerify settles.
OAuthJwtVerify(outcome, payload) ==
    /\ Idle
    /\ component = "validator"
    /\ ov.pc = "jwtVerify"
    /\ outcome \in JwtOutcomesOf(ov.token)
    /\ LET call == [ov EXCEPT !.jwt = outcome] IN
       IF outcome = "ok" THEN OAuthSettle(call, Valid(UserIdOf(payload)))
       ELSE IF JwtFallsBack(outcome)
            THEN ov' = [call EXCEPT !.pc = "fetch"] /\ UNCHANGED last
       ELSE OAuthSettle(call, JwtErrorResult(outcome))
    /\ UNCHANGED <<component, env, config, appVars, now, ticks, routeVars, storeVars, builtinVars>>

\* A faulty introspection that reports a non-OK response as an inactive token.
NotOkResultInactive == Invalid("Token is not active")

\* token-validator.ts:94-100  the result for a response that is not OK.
NotOkResult == Invalid("Token introspection failed")

\* token-validator.ts:83-101  the introspection request settles.
OAuthFetch(outcome) ==
    /\ Idle
    /\ component = "validator"
    /\ ov.pc = "fetch"
    /\ LET call == [ov EXCEPT !.requests = @ + 1, !.response = outcome] IN
       CASE outcome = "network_error" -> OAuthSettle(call, Thrown)
         [] outcome = "not_ok" -> OAuthSettle(call, NotOkResult)
         [] OTHER -> ov' = [call EXCEPT !.pc = "json"] /\ UNCHANGED last
    /\ UNCHANGED <<component, env, config, appVars, now, ticks, routeVars, storeVars, builtinVars>>

\* token-validator.ts:103-116  response.json() settles.
OAuthJson(body) ==
    /\ Idle
    /\ component = "validator"
    /\ ov.pc = "json"
    /\ OAuthSettle([ov EXCEPT !.body = body], IntrospectResult(body, ov.audience))
    /\ UNCHANGED <<component, env, config, appVars, now, ticks, routeVars, storeVars, builtinVars>>

\* ------------------------------------------------------------------ config

\* config.ts:106-114  the enums of the schema.
NodeEnvEnum == {"development", "production", "test"}
LogLevelEnum == {"error", "warn", "info", "debug"}
AuthModeEnum == {"none", "full", "resource_server"}

\* config.ts:104-120, 129  configSchema.parse(process.env): whether it throws
\* ...
SchemaError(e) ==
    \/ e.NODE_ENV # "" /\ e.NODE_ENV \notin NodeEnvEnum
    \/ e.LOG_LEVEL # "" /\ e.LOG_LEVEL \notin LogLevelEnum
    \/ e.AUTH_MODE # "" /\ e.AUTH_MODE \notin AuthModeEnum

\* ... and the object it returns otherwise, with the defaults filled in.
Parsed(e) ==
    [e EXCEPT !.NODE_ENV = IF @ = "" THEN "development" ELSE @,
              !.LOG_LEVEL = IF @ = "" THEN "info" ELSE @,
              !.AUTH_MODE = IF @ = "" THEN "none" ELSE @]

\* A faulty validation that does not ask for OAUTH_AUDIENCE in
\* resource_server mode.
ModeErrorNoAudience(parsed) ==
    IF parsed.AUTH_MODE = "full"
       /\ (parsed.OAUTH_ISSUER = "" \/ parsed.OAUTH_CLIENT_ID = ""
             \/ parsed.OAUTH_CLIENT_SECRET = "")
    THEN "AUTH_MODE=full requires complete OAuth configuration"
    ELSE IF parsed.AUTH_MODE \in {"resource_server", "full"}
            /\ parsed.OAUTH_ISSUER = ""
    THEN "requires OAUTH_ISSUER"
    ELSE ""

\* config.ts:131-168  the checks by mode, in the code's order: the error
\* thrown ("" is none).
ModeError(parsed) ==
    IF parsed.AUTH_MODE = "full"
       /\ (parsed.OAUTH_ISSUER = "" \/ parsed.OAUTH_CLIENT_ID = ""
             \/ parsed.OAUTH_CLIENT_SECRET = "")
    THEN "AUTH_MODE=full requires complete OAuth configuration"
    ELSE IF parsed.AUTH_MODE \in {"resource_server", "full"}
            /\ parsed.OAUTH_ISSUER = ""
    THEN "requires OAUTH_ISSUER"
    ELSE IF parsed.AUTH_MODE = "resource_server" /\ parsed.OAUTH_AUDIENCE = ""
    THEN "AUTH_MODE=resource_server requires OAUTH_AUDIENCE"
    ELSE ""

\* config.ts:169-176  console.warn for full mode without an audience.
AudienceWarning(parsed) ==
    parsed.AUTH_MODE = "full" /\ parsed.OAUTH_AUDIENCE = ""

\* A faulty getConfig that parses the environment on every call.
UseCacheNever == FALSE

\* config.ts:127  if (!config): a loaded configuration is returned as it is.
UseCache == config.state = "loaded"

\* config.ts:126-185  getConfig.  The environment is not written while the
\* caller holds the answer, so env is what the call read.
GetConfig ==
    /\ Idle
    /\ component = "config"
    /\ config.state # "exited"
    /\ IF UseCache
       THEN /\ last' = [op |-> "getConfig", cached |-> TRUE,
                        outcome |-> "returned", config |-> config.value,
                        warned |-> FALSE]
            /\ UNCHANGED config
       ELSE IF SchemaError(env) \/ ModeError(Parsed(env)) # ""
       THEN /\ last' = [op |-> "getConfig", cached |-> FALSE,
                        outcome |-> "exit", code |-> 1, warned |-> FALSE]
            /\ config' = Exited
       ELSE /\ last' = [op |-> "getConfig", cached |-> FALSE,
                        outcome |-> "returned", config |-> Parsed(env),
                        warned |-> AudienceWarning(Parsed(env))]
            /\ config' = Loaded(Parsed(env))
    /\ UNCHANGED <<ov, component, env, appVars, now, ticks, routeVars, storeVars,
                   builtinVars>>

\* The environment changes between two calls (the test suite assigns
\* process.env variables one at a time).
SetEnv(name, value) ==
    /\ Idle
    /\ component = "config"
    /\ config.state # "exited"
    /\ env[name] # value
    /\ env' = [env EXCEPT ![name] = value]
    /\ UNCHANGED <<ov, component, config, appVars, now, ticks, routeVars, storeVars,
                   builtinVars, last>>

\* -------------------------------------------------------------- auth/index

\* config.ts:127-184  what a getConfig call leaves in the module variable:
\* the cached configuration, the one just parsed, or the process exited.
ConfigAfterGet ==
    IF UseCache THEN config
    ELSE IF SchemaError(env) \/ ModeError(Parsed(env)) # "" THEN Exited
    ELSE Loaded(Parsed(env))

\* auth/index.ts:9-46  initializeAuth: the token validator of each mode (an
\* OAuthTokenValidator for resource_server, null for none and for full).
NoValidator == [present |-> FALSE]
InitializeAuth(cfg) ==
    IF cfg.AUTH_MODE = "none" THEN NoValidator
    ELSE IF cfg.AUTH_MODE = "resource_server"
    THEN [present |-> TRUE, issuer |-> cfg.OAUTH_ISSUER,
          audience |-> cfg.OAUTH_AUDIENCE]
    ELSE NoValidator

\* auth/index.ts:51-60  createAuthenticationMiddleware: a pass-through when
\* initializeAuth gives no validator, createAuthMiddleware(validator)
\* otherwise.
MiddlewareFor(cfg) ==
    IF ~InitializeAuth(cfg).present THEN "passthrough" ELSE "validator"

\* A call of createAuthenticationMiddleware (once, at start-up): getConfig,
\* which may end the process, then the middleware of the mode.
CreateAuthenticationMiddleware ==
    /\ Idle
    /\ component = "config"
    /\ config.state # "exited"
    /\ authMiddleware = "unset"
    /\ config' = ConfigAfterGet
    /\ IF ConfigAfterGet.state = "exited"
       THEN /\ last' = [op |-> "createMiddleware", outcome |-> "exit"]
            /\ UNCHANGED authMiddleware
       ELSE /\ authMiddleware' = MiddlewareFor(ConfigAfterGet.value)
            /\ last' = [op |-> "createMiddleware", outcome |-> "created",
                        mode |-> ConfigAfterGet.value.AUTH_MODE,
                        middleware |-> MiddlewareFor(ConfigAfterGet.value)]
    /\ UNCHANGED <<ov, component, env, transports, now, ticks, routeVars,
                   storeVars, builtinVars>>

\* auth/index.ts:55  (_req, _res, next) => next()
PassedOn ==
    [status |-> 0, error |-> "", error_description |-> "",
     nextCalls |-> 1, userId |-> "", accessToken |-> ""]

\* What the validator in use would answer for the bearer token of a
\* request: an external matter here (the validator has its own component).
Validations == {Valid("user789"), Invalid("Token expired")}
RequestHeaders == {NoHeader, Header("Basic", "credentials"),
                   Header("Bearer", "token")}

\* A request through the middleware createAuthenticationMiddleware returned.
MiddlewareRequest(header, validation) ==
    /\ Idle
    /\ component = "config"
    /\ authMiddleware \in {"passthrough", "validator"}
    /\ last' = [op |-> "request", mode |-> config.value.AUTH_MODE,
                middleware |-> authMiddleware, header |-> header,
                validation |-> validation,
                answer |-> IF authMiddleware = "passthrough" THEN PassedOn
                           ELSE IF ~HasBearer(header) THEN Unauthorized
                           ELSE AuthAnswer(BearerToken(header), validation,
                                           FALSE, AuthDescription(validation))]
    /\ UNCHANGED <<ov, component, env, config, appVars, now, ticks, routeVars,
                   storeVars, builtinVars>>

\* ------------------------------------------------------------------- /mcp

\* The session ids randomUUID gives the transports, and one no transport has.
SessionIds == {"s1", "s2"}
UnknownSessions == {"s9"}

\* The requests to /mcp: the methods index.ts routes (L182-183), the
\* mcp-session-id header ("" is none), whether the body is an initialize
\* request, the Authorization header, and what validateToken would answer
\* for its bearer token.
McpRequests ==
    [method : {"GET", "POST"},
     sessionId : {""} \cup SessionIds \cup UnknownSessions,
     init : BOOLEAN,
     header : {NoHeader, Header("Bearer", "token")},
     validation : Validations]

\* index.ts:182-183  what stands before mcpHandler on the route: nothing
\* for GET, authMiddleware for POST (pass-through when authentication is
\* disabled, the bearer check of the provider's middleware otherwise).
RouteAnswer(r) ==
    IF r.method = "GET" THEN PassedOn
    ELSE IF authMiddleware = "passthrough" THEN PassedOn
    ELSE IF ~HasBearer(r.header) THEN Unauthorized
    ELSE AuthAnswer(BearerToken(r.header), r.validation, FALSE,
                    "The access token is invalid or expired")

\* Whether the request has gone through the bearer check and passed it.
PassedValidation(r) ==
    /\ r.method = "POST"
    /\ authMiddleware # "passthrough"
    /\ HasBearer(r.header) /\ r.validation.valid

\* index.ts:53-123  mcpHandler: the branch that answers the request.
McpBranch(r) ==
    IF r.method = "POST" /\ r.sessionId = "" /\ r.init THEN "initialize"
    ELSE IF r.sessionId # "" /\ r.sessionId \in transports THEN "session"
    ELSE IF r.method = "POST" /\ r.sessionId = "" THEN "no_session"
    ELSE IF r.sessionId # "" THEN "unknown_session"
    ELSE "info"

\* What last records of a request to /mcp: handled says that
\* transport.handleRequest was called with it.
McpAnswer(r, status, handled) ==
    [op |-> "mcp", request |-> r, status |-> status, handled |-> handled,
     enableAuth |-> authMiddleware # "passthrough",
     validated |-> PassedValidation(r)]

\* index.ts:53-130, 182-183  a request to /mcp: the route's middleware, then
\* mcpHandler.  An initialize request gets a new transport, registered under
\* a fresh session id (L61-71); status 0 is an answer written by the
\* transport.
McpRequest(r) ==
    /\ Idle
    /\ component = "mcp"
    /\ IF RouteAnswer(r).nextCalls = 0
       THEN /\ last' = McpAnswer(r, RouteAnswer(r).status, FALSE)
            /\ UNCHANGED transports
       ELSE CASE McpBranch(r) = "initialize" ->
                   /\ \E id \in SessionIds \ transports :
                         transports' = transports \cup {id}
                   /\ last' = McpAnswer(r, 0, TRUE)
              [] McpBranch(r) = "session" ->
                   /\ last' = McpAnswer(r, 0, TRUE)
                   /\ UNCHANGED transports
              [] McpBranch(r) = "no_session" ->
                   /\ last' = McpAnswer(r, 400, FALSE)
                   /\ UNCHANGED transports
              [] McpBranch(r) = "unknown_session" ->
                   /\ last' = McpAnswer(r, 404, FALSE)
                   /\ UNCHANGED transports
              [] OTHER ->
                   /\ last' = McpAnswer(r, 200, FALSE)
                   /\ UNCHANGED transports
    /\ UNCHANGED <<ov, component, env, config, authMiddleware, now, ticks,
                   routeVars, storeVars, builtinVars>>

\* ------------------------------------------------------------ specification

Next ==
    \/ Tick
    \/ Return
    \/ \E q \in AuthorizeQueries : Authorize(q)
    \/ \E p \in CbIds, q \in CallbackQueries : CallbackStart(p, q)
    \/ \E p \in CbIds, o \in IdpOutcomes : CallbackResume(p, o)
    \/ \E b \in TokenBodies : TokenRequest(b)
    \/ \E t \in DOMAIN issued, o \in RevocationOutcomes : Revoke(t, o)
    \/ \E c \in ApiCodes, d \in ApiGrants : ApiStoreAuthorizationCode(c, d)
    \/ \E c \in ApiCodes, x \in Presented :
          ApiExchangeAuthorizationCode(c, x[1], x[2], x[3])
    \/ \E c \in UnknownCodes : ApiExchangeAuthorizationCode(c, "V1", "A", "RA")
    \/ \E t \in PresentedTokens : ValidateToken(t)
    \/ ValidateTokenAgain
    \/ \E h \in AuthHeaders : Authenticate(h)
    \/ Cleanup
    \/ \E t \in BuiltinTokenNames, off \in BuiltinExpiryOffsets :
          StoreToken(t, "user123", now + off)
    \/ \E t \in timers : TimerFire(t)
    \/ \E t \in BuiltinTokenNames : BuiltinValidateToken(t)
    \/ \E h \in BuiltinAuthHeaders : BuiltinAuthenticate(h)
    \/ \E t \in OAuthTokens, a \in Audiences, u \in BOOLEAN :
          OAuthValidateToken(t, a, u)
    \/ \E h \in OAuthAuthHeaders, a \in Audiences, u \in BOOLEAN :
          OAuthAuthenticate(h, a, u)
    \/ \E o \in JwtOutcomes, c \in IdentityClaims : OAuthJwtVerify(o, c)
    \/ \E o \in FetchOutcomes : OAuthFetch(o)
    \/ \E b \in IntrospectionBodies : OAuthJson(b)
    \/ GetConfig
    \/ CreateAuthenticationMiddleware
    \/ \E r \in McpRequests : McpRequest(r)
    \/ \E h \in RequestHeaders, v \in Validations : MiddlewareRequest(h, v)
    \/ \E name \in DOMAIN EnvDomain : \E value \in EnvDomain[name] :
          SetEnv(name, value)

Spec == Init /\ [][Next]_vars

\* The same program with its scheduling: the clock keeps advancing and the
\* setInterval of the provider (oauth-provider.ts:68) keeps firing whatever
\* requests are served in between, and every handler that has been entered
\* delivers its answer.
SpecFair ==
    Spec /\ SF_vars(Tick) /\ SF_vars(Cleanup) /\ WF_vars(Return)

\* ------------------------------------------------------------- properties

\* last records a call that reached exchangeAuthorizationCode: a direct one,
\* or a POST /token that passed the parameter checks.
ExchangeCalled(l) ==
    \/ l.op = "exchange"
    \/ l.op = "token" /\ l.error \notin {"unsupported_grant_type", "invalid_request"}

\* The grant a recorded exchange call found in the store was not expired, and
\* the call presented the grant's client_id and redirect_uri.
SawLiveGrant(l) == l.seen.found /\ l.seen.data.expiresAt > now
SawBoundGrant(l) ==
    /\ l.seen.data.clientId = l.clientId
    /\ l.seen.data.redirectUri = l.redirectUri

\* C1  Single use of a grant: once an exchange with a code has returned a
\* token descriptor (the code is in redeemed, which storeAuthorizationCode
\* for that code clears), every later exchange call with that code, whatever
\* its other arguments, returns null.
C1_SingleUse ==
    [][(Idle /\ ExchangeCalled(last') /\ last'.code \in redeemed)
          => last'.result.isNull]_vars

\* A redeemed code has been presented again and the call returned null.
C1_Witness ==
    /\ ExchangeCalled(last)
    /\ last.code \in redeemed
    /\ ~last.seen.found
    /\ last.result.isNull

\* C2  Atomic redemption: in every reachable state (each is a point where
\* another request can run) no two access tokens were issued for one grant,
\* and no grant for which a token was issued is still in the store.
C2_AtomicRedemption ==
    /\ \A t1, t2 \in DOMAIN issued :
          issued[t1].gid = issued[t2].gid => t1 = t2
    /\ \A c \in DOMAIN authorizationCodes : \A t \in DOMAIN issued :
          issued[t].gid # authorizationCodes[c].gid

\* POST /token came a second time with the code and the verifier that had
\* already obtained a token, and was answered invalid_grant.
C2_Witness ==
    /\ last.op = "token"
    /\ last.error = "invalid_grant"
    /\ \E t \in DOMAIN issued :
          /\ issued[t].gid = last.code
          /\ issued[t].codeVerifier = last.codeVerifier
          /\ t \in DOMAIN accessTokens

\* C3  PKCE correctness: an exchange that finds the grant in the store,
\* unexpired, and presents the grant's client_id and redirect_uri returns a
\* token descriptor if and only if S256 of the presented verifier equals the
\* grant's codeChallenge.
C3_PkceCorrect ==
    (ExchangeCalled(last) /\ SawLiveGrant(last) /\ SawBoundGrant(last))
       => (~last.result.isNull
             <=> S256(last.codeVerifier) = last.seen.data.codeChallenge)

\* An exchange on a live grant with the right binding was refused because
\* the verifier's digest is not the stored challenge.
C3_Witness ==
    /\ ExchangeCalled(last) /\ SawLiveGrant(last) /\ SawBoundGrant(last)
    /\ S256(last.codeVerifier) # last.seen.data.codeChallenge
    /\ last.result.isNull
    /\ last.code \in DOMAIN authorizationCodes

\* C4  Client/redirect binding: an exchange with the correct verifier that
\* presents another client_id or another redirect_uri than the grant's
\* returns null and creates no access token.
C4_Binding ==
    [][(/\ Idle /\ ExchangeCalled(last')
        /\ last'.code \in DOMAIN authorizationCodes
        /\ S256(last'.codeVerifier) = authorizationCodes[last'.code].codeChallenge
        /\ \/ authorizationCodes[last'.code].clientId # last'.clientId
           \/ authorizationCodes[last'.code].redirectUri # last'.redirectUri)
          => /\ last'.result.isNull
             /\ accessTokens' = accessTokens
             /\ issued' = issued]_vars

\* An exchange with the right verifier and the right client_id, but another
\* redirect_uri than the live grant's, was refused.
C4_Witness ==
    /\ ExchangeCalled(last) /\ SawLiveGrant(last)
    /\ S256(last.codeVerifier) = last.seen.data.codeChallenge
    /\ last.seen.data.clientId = last.clientId
    /\ last.seen.data.redirectUri # last.redirectUri
    /\ last.result.isNull

\* C5  Grant expiry: an exchange on a grant whose expiresAt is in the past
\* returns null, creates no access token and removes the grant in that same
\* call, whatever verifier, client_id and redirect_uri it presents.
C5_GrantExpiry ==
    [][(/\ Idle /\ ExchangeCalled(last')
        /\ last'.code \in DOMAIN authorizationCodes
        /\ authorizationCodes[last'.code].expiresAt < now)
          => /\ last'.result.isNull
             /\ accessTokens' = accessTokens
             /\ issued' = issued
             /\ last'.code \notin DOMAIN authorizationCodes']_vars

\* An exchange with the right verifier and binding found its grant expired:
\* it returned null and the grant is gone.
C5_Witness ==
    /\ ExchangeCalled(last)
    /\ last.seen.found /\ last.seen.data.expiresAt < now
    /\ SawBoundGrant(last)
    /\ S256(last.codeVerifier) = last.seen.data.codeChallenge
    /\ last.result.isNull
    /\ last.code \notin DOMAIN authorizationCodes

\* C6  Access-token expiry: validateToken on a stored access token whose
\* expiresAt is in the past returns valid = false and removes the record in
\* that call, so the validateToken that follows at once finds no record; in
\* BuiltinTokenValidator the first call answers "Token expired" and the
\* second "Token not found".
C6_TokenExpiry ==
    /\ (last.op = "validate" /\ last.seen.found
           /\ last.seen.data.expiresAt < now)
          => /\ ~last.result.valid
             /\ last.token \notin DOMAIN accessTokens
             /\ ~ValidateResult(last.token).valid
    /\ \A k \in 1..Len(calls) :
          calls[k].past
            => /\ ~calls[k].result.valid
               /\ calls[k].result.error = "Token expired"
               /\ (k = Len(calls) => calls[k].token \notin DOMAIN tokens)
               /\ (k < Len(calls) /\ calls[k + 1].token = calls[k].token)
                     => /\ ~calls[k + 1].result.valid
                        /\ calls[k + 1].result.error = "Token not found"

\* BuiltinTokenValidator was asked twice in a row about a stored token past
\* its expiresAt: "Token expired", then "Token not found".
C6_Witness ==
    /\ Len(calls) = 2
    /\ calls[1].past
    /\ calls[2].token = calls[1].token
    /\ calls[1].result.error = "Token expired"
    /\ calls[2].result.error = "Token not found"

\* C7  An expired PendingAuthRequest is never consumed: no grant is minted
\* from a PendingAuthRequest whose expiresAt has passed at the moment the
\* grant is stored, also when it passes during the await of the IdP exchange.
C7_ExpiredNeverConsumed == \A m \in minted : ~m.requestExpired

\* C8  A PendingAuthRequest is consumed exactly once: whatever the
\* interleaving of /callback requests with the same state, at most one grant
\* is minted (and one redirect to the client issued) per PendingAuthRequest.
C8_ConsumedOnce ==
    \A m1, m2 \in minted : m1.requestId = m2.requestId => m1.gid = m2.gid

\* C9  Double-PKCE isolation: every access token issued for a grant minted
\* at /callback was obtained with a verifier whose S256 digest is the
\* challenge the client sent to /authorize in that flow, whatever IdP tokens
\* and other flows exist.
C9_DoublePkce ==
    \A t \in DOMAIN issued : \A m \in minted :
        issued[t].gid = m.gid
          => S256(issued[t].codeVerifier) = m.clientChallenge

\* With two flows completed through the IdP, the verifier of one flow was
\* presented (with the right client_id and redirect_uri) for the live grant
\* of the other flow, and POST /token refused it.
C9_Witness ==
    /\ last.op = "token" /\ ExchangeCalled(last)
    /\ SawLiveGrant(last) /\ SawBoundGrant(last)
    /\ \E m1, m2 \in minted :
          /\ m1.gid = last.seen.data.gid
          /\ m2.gid # m1.gid
          /\ m2.idpAnswer = "tokens"
          /\ m2.clientChallenge = S256(last.codeVerifier)
          /\ m1.clientChallenge # S256(last.codeVerifier)
    /\ last.result.isNull
    /\ last.error = "invalid_grant"

\* C10  In proxy mode every grant ever stored, and so every access token
\* issued, comes from a /callback whose IdP exchange returned tokens for a
\* PendingAuthRequest that /authorize had created and /callback had found;
\* /authorize and a failed /callback create no grant.
C10_GrantsFromIdp ==
    component = "server" =>
      /\ nGrants = Cardinality(minted)
      /\ \A m \in minted :
            m.idpAnswer = "tokens" /\ m.requestId \in 1..nReqs
      /\ \A c \in DOMAIN authorizationCodes :
            /\ authorizationCodes[c].externalTokens.present
            /\ \E m \in minted : m.gid = authorizationCodes[c].gid
      /\ \A t \in DOMAIN issued : \E m \in minted : m.gid = issued[t].gid

\* A /callback whose IdP exchange failed answered 500 while the only grant
\* in the store is the one an earlier, successful /callback minted.
C10_Witness ==
    /\ component = "server"
    /\ last.op = "callback" /\ last.status = 500
    /\ nGrants = 1
    /\ DOMAIN authorizationCodes = {1}
    /\ authorizationCodes[1].externalTokens.present

\* C11  The grant a successful /callback mints carries the clientId,
\* redirectUri, scope, codeChallenge and codeChallengeMethod of the
\* PendingAuthRequest the handler looked up by the incoming state and the
\* access token the IdP returned for that request's verifier; the redirect
\* goes to that request's redirectUri with that request's state; the grant's
\* codeChallenge is not the server's externalCodeChallenge.
C11_GrantFromRequest ==
    [][(Idle /\ last'.op = "callback" /\ last'.status = 302)
         => \E p \in CbIds :
              /\ cb[p].pc = "awaiting" /\ cb'[p].pc = "idle"
              /\ last'.code \in DOMAIN authorizationCodes'
              /\ LET r == cb[p].originalRequest
                     g == authorizationCodes'[last'.code]
                 IN /\ g.clientId = r.clientId
                    /\ g.redirectUri = r.redirectUri
                    /\ g.scope = r.scope
                    /\ g.codeChallenge = r.codeChallenge
                    /\ g.codeChallengeMethod = r.codeChallengeMethod
                    /\ g.codeChallenge # r.externalCodeChallenge
                    /\ g.externalTokens.present
                    /\ g.externalTokens.accessToken =
                         "ext-" \o r.externalCodeVerifier
                    /\ last'.to = r.redirectUri
                    /\ last'.state = r.state
                    /\ last'.requestId = cb[p].requestId]_vars

\* A /callback for client B's request (which sent no state, so the server
\* generated one) has just minted a grant and redirected to RB.
C11_Witness ==
    /\ last.op = "callback" /\ last.status = 302
    /\ last.to = "RB" /\ last.state = "random"
    /\ last.code \in DOMAIN authorizationCodes
    /\ authorizationCodes[last.code].clientId = "B"
    /\ authorizationCodes[last.code].codeChallenge = S256("V2")
    /\ authorizationCodes[last.code].externalTokens.present
\* A /authorize query that is complete but for PKCE: no code_challenge, or a
\* code_challenge_method other than "S256".
LacksS256(q) ==
    /\ q.response_type = "code"
    /\ q.client_id # "" /\ q.redirect_uri # ""
    /\ (q.code_challenge = "" \/ q.code_challenge_method # "S256")

\* C12  Mandatory S256 PKCE at /authorize: a request with response_type=code,
\* client_id and redirect_uri but without code_challenge, or with a method
\* other than "S256", is answered 400 invalid_request (no redirect to the
\* IdP) and creates no PendingAuthRequest.
C12_PkceRequired ==
    [][\A q \in AuthorizeQueries :
         (LacksS256(q) /\ Authorize(q))
           => /\ last'.op = "authorize"
              /\ last'.status = 400
              /\ last'.error = "invalid_request"
              /\ pendingRequests' = pendingRequests
              /\ nReqs' = nReqs]_vars

\* /authorize has just refused a request for its PKCE parameters, with room
\* left for another flow, and no PendingAuthRequest exists.
C12_Witness ==
    /\ last.op = "authorize"
    /\ last.status = 400
    /\ last.error = "invalid_request"
    /\ last.error_description = "PKCE with S256 is required"
    /\ nReqs = 0
    /\ pendingRequests = <<>>
\* A /callback query with code and state whose state names no
\* PendingAuthRequest, or one whose expiresAt has passed.
StaleState(q) ==
    /\ CallbackParamError(q) = ""
    /\ \/ q.state \notin DOMAIN pendingRequests
       \/ pendingRequests[q.state].expiresAt < now

\* C13  A /callback whose state matches no PendingAuthRequest, or one whose
\* expiresAt has passed at lookup, is answered 400 invalid_request, starts no
\* exchange with the IdP and mints no grant; afterwards no PendingAuthRequest
\* is stored under that state (the expired one is deleted by that call).
C13_StaleCallback ==
    [][\A p \in CbIds : \A q \in CallbackQueries :
         (StaleState(q) /\ CallbackStart(p, q))
           => /\ last'.op = "callback"
              /\ last'.status = 400
              /\ last'.error = "invalid_request"
              /\ cb' = cb
              /\ authorizationCodes' = authorizationCodes
              /\ nGrants' = nGrants
              /\ minted' = minted
              /\ q.state \notin DOMAIN pendingRequests'
              /\ \A r \in DOMAIN pendingRequests' :
                    pendingRequests'[r] = pendingRequests[r]]_vars

\* The only flow's PendingAuthRequest was found expired by a /callback: the
\* call answered invalid_request, the request is gone, and no grant exists.
C13_Witness ==
    /\ last.op = "callback"
    /\ last.status = 400
    /\ last.error = "invalid_request"
    /\ last.error_description = "Authorization request has expired"
    /\ nReqs = 1
    /\ pendingRequests = <<>>
    /\ nGrants = 0
    /\ \A p \in CbIds : cb[p].pc = "idle"
\* C14  When the IdP token exchange of a /callback fails (non-OK answer or
\* network error), the call leaves the PendingAuthRequest in the store,
\* unchanged.
C14_FailureKeepsRequest ==
    [][\A p \in CbIds : \A o \in IdpOutcomes \ {"tokens"} :
         CallbackResume(p, o) => pendingRequests' = pendingRequests]_vars

\* No /callback that found request r has reached the IdP exchange.
NoCallbackFor(r) ==
    \A p \in CbIds : cb[p].pc = "awaiting" => cb[p].requestId # r

\* C15  Every PendingAuthRequest is eventually destroyed: with the clock
\* advancing and the sweep running again and again, a PendingAuthRequest for
\* which no /callback ever arrives is eventually removed from the store.
C15_EventuallyDestroyed ==
    \A r \in Flows :
        ([]NoCallbackFor(r))
          => ((r \in DOMAIN pendingRequests) ~> (r \notin DOMAIN pendingRequests))
\* The records of the two stores whose expiresAt is earlier than the clock.
ExpiredCodes ==
    {c \in DOMAIN authorizationCodes : authorizationCodes[c].expiresAt < now}
ExpiredTokens ==
    {t \in DOMAIN accessTokens : accessTokens[t].expiresAt < now}

\* C16  Background sweep: right after a run of cleanup the grant store and
\* the access-token store hold no record whose expiresAt is earlier than the
\* clock, and every record whose expiresAt is not earlier is still there,
\* unmodified; hence, with the sweep running again and again, every expired
\* grant and token is eventually removed.
C16_Sweep ==
    /\ [][(Idle /\ last'.op = "cleanup")
            => /\ \A c \in DOMAIN authorizationCodes' :
                     ~(authorizationCodes'[c].expiresAt < now)
               /\ \A t \in DOMAIN accessTokens' :
                     ~(accessTokens'[t].expiresAt < now)
               /\ \A c \in DOMAIN authorizationCodes \ ExpiredCodes :
                     /\ c \in DOMAIN authorizationCodes'
                     /\ authorizationCodes'[c] = authorizationCodes[c]
               /\ \A t \in DOMAIN accessTokens \ ExpiredTokens :
                     /\ t \in DOMAIN accessTokens'
                     /\ accessTokens'[t] = accessTokens[t]]_vars
    /\ (ExpiredCodes # {} \/ ExpiredTokens # {})
          ~> (ExpiredCodes = {} /\ ExpiredTokens = {})

\* A sweep has just removed an expired grant and left a live one in place.
C16_Witness ==
    /\ last.op = "cleanup"
    /\ last.codes # {}
    /\ DOMAIN authorizationCodes # {}
    /\ ExpiredCodes = {}
\* C17  Successful exchange effects: a successful exchangeAuthorizationCode
\* creates exactly one AccessTokenRecord, keyed by a token never generated
\* before that starts with "mcp_", with the grant's scope, the grant's
\* userId when it has one, the grant's externalTokens and a lifetime of
\* 3600 seconds; it returns that token with expiresIn = 3600 and the grant's
\* scope; and validateToken on an issued token answers valid, with the
\* record's userId and scope, as long as its expiry has not passed.
C17_ExchangeEffects ==
    /\ [][(Idle /\ ExchangeCalled(last') /\ ~last'.result.isNull)
            => /\ last'.code \in DOMAIN authorizationCodes
               /\ LET g == authorizationCodes[last'.code]
                      t == last'.result.accessToken
                  IN /\ \E n \in 1..nTokens' : t = "mcp_" \o ToString(n)
                     /\ t \notin DOMAIN accessTokens
                     /\ t \notin DOMAIN issued
                     /\ DOMAIN accessTokens' = DOMAIN accessTokens \cup {t}
                     /\ \A u \in DOMAIN accessTokens :
                           accessTokens'[u] = accessTokens[u]
                     /\ accessTokens'[t].scope = g.scope
                     /\ (g.userId # "" => accessTokens'[t].userId = g.userId)
                     /\ accessTokens'[t].userId # ""
                     /\ accessTokens'[t].externalTokens = g.externalTokens
                     /\ accessTokens'[t].expiresAt = now + 3600 * 1000
                     /\ last'.result.expiresIn = 3600
                     /\ last'.result.scope = g.scope]_vars
    /\ [](\A t \in DOMAIN issued :
            issued[t].at + 3600 * 1000 >= now
              => /\ t \in DOMAIN accessTokens
                 /\ ValidateResult(t).valid
                 /\ (last.op = "validate" /\ last.token = t)
                       => /\ last.result.valid
                          /\ last.result.userId = accessTokens[t].userId
                          /\ last.result.scope = accessTokens[t].scope)

\* POST /token has just issued a token for a grant minted by /callback: the
\* record carries the IdP's tokens and the grant's userId.
C17_Witness ==
    /\ last.op = "token" /\ last.status = 200
    /\ last.seen.found
    /\ last.seen.data.externalTokens.present
    /\ last.seen.data.userId = "external-user"
    /\ last.result.accessToken \in DOMAIN accessTokens
    /\ accessTokens[last.result.accessToken].externalTokens =
         last.seen.data.externalTokens
    /\ accessTokens[last.result.accessToken].userId = "external-user"
\* C18  OAuthTokenValidator.validateToken never throws: whatever the token,
\* the outcome of jwtVerify and the outcome of the introspection request
\* (also the one made from the JWT failure handler, rejecting or answering
\* an unparsable body), a settled call has resolved to a result, and every
\* result that is not valid = true is valid = false with an error string.
C18_NeverThrows ==
    last.op = "oauthValidate"
      => /\ ~last.result.thrown
         /\ last.result.valid \in BOOLEAN
         /\ ~last.result.valid => last.result.error # ""
         /\ (\/ last.response = "network_error"
             \/ last.body = Unparsable
             \/ last.jwt = "url_error")
               => /\ ~last.result.valid
                  /\ last.result.error = "Token validation failed"

\* jwtVerify rejected with an unnamed error and the introspection request
\* made from the failure handler rejected too: "Token validation failed".
C18_Witness ==
    /\ last.op = "oauthValidate"
    /\ Len(last.token) = 3
    /\ last.jwt = "other"
    /\ last.response = "network_error"
    /\ ~last.result.thrown
    /\ ~last.result.valid
    /\ last.result.error = "Token validation failed"

\* C19  JWT fallback: for a three-segment token whose local verification
\* failed and for which the introspection endpoint answered OK with
\* active = true (and the configured audience as aud, when one is
\* configured), validateToken returns valid = true with the userId of the
\* introspection response.
C19_JwtFallback ==
    (/\ last.op = "oauthValidate"
     /\ Len(last.token) = 3
     /\ last.jwt \notin {"none", "ok"}
     /\ last.response = "ok"
     /\ ~last.body.unparsable /\ ~last.body.absent
     /\ last.body.active
     /\ last.audience # "" => last.body.aud = last.audience)
      => /\ ~last.result.thrown
         /\ last.result.valid
         /\ last.result.userId = UserIdOf(last.body.id)

\* A three-segment token failed jwtVerify, the validator has no audience
\* configured, and introspection answered active with sub "user789" and some
\* aud: the call returned valid for user789.
C19_Witness ==
    /\ last.op = "oauthValidate"
    /\ Len(last.token) = 3
    /\ last.jwt = "other"
    /\ last.audience = ""
    /\ last.response = "ok"
    /\ ~last.body.unparsable /\ ~last.body.absent
    /\ last.body.active /\ last.body.aud = "different-audience"
    /\ last.result.valid
    /\ last.result.userId = "user789"

\* C20  JWT failure mapping: an expiry error gives "Token expired", a
\* structurally-invalid error "Invalid token", a no-matching-key error "No
\* matching key found", each with valid = false and without any introspection
\* request; any other failure of jwtVerify is followed by exactly one
\* introspection request, whose outcome is the result.
C20_JwtFailureMapping ==
    last.op = "oauthValidate" =>
      /\ last.jwt = "JWTExpired"
           => /\ last.result = Invalid("Token expired")
              /\ last.requests = 0
      /\ last.jwt = "JWTInvalid"
           => /\ last.result = Invalid("Invalid token")
              /\ last.requests = 0
      /\ last.jwt = "JWKSNoMatchingKey"
           => /\ last.result = Invalid("No matching key found")
              /\ last.requests = 0
      /\ last.jwt = "other"
           => /\ last.requests = 1
              /\ last.response = "network_error"
                   => last.result = Invalid("Token validation failed")
              /\ last.response = "not_ok"
                   => last.result = Invalid("Token introspection failed")
              /\ (last.response = "ok" /\ last.body.unparsable)
                   => last.result = Invalid("Token validation failed")
              /\ (last.response = "ok" /\ ~last.body.unparsable)
                   => \/ /\ ~last.body.active
                         /\ last.result = Invalid("Token is not active")
                      \/ /\ last.body.active
                         /\ last.audience # ""
                         /\ last.body.aud # last.audience
                         /\ last.result = Invalid("Invalid audience")
                      \/ /\ last.body.active
                         /\ last.audience = "" \/ last.body.aud = last.audience
                         /\ last.result = Valid(UserIdOf(last.body.id))

\* jwtVerify rejected with a no-matching-key error: "No matching key found",
\* and the introspection endpoint was not contacted.
C20_Witness ==
    /\ last.op = "oauthValidate"
    /\ last.jwt = "JWKSNoMatchingKey"
    /\ last.requests = 0
    /\ last.response = "none"
    /\ last.result = Invalid("No matching key found")

\* An opaque token (token.split(".") has not three segments) validated by a
\* validator whose issuer is a URL: the introspection path proper.
IntrospectionCall(l) ==
    l.op = "oauthValidate" /\ Len(l.token) # 3 /\ l.requests = 1

\* C21  Introspection path: validateToken on an opaque token returns
\* valid = true if and only if the introspection response is OK, has
\* active = true and (no audience is configured or its aud is the configured
\* audience); when valid, userId is sub if present, otherwise user_id,
\* otherwise username.  A non-OK response gives "Token introspection
\* failed", active = false "Token is not active", an audience mismatch
\* "Invalid audience".
C21_Introspection ==
    IntrospectionCall(last) =>
      LET answered == last.response = "ok" /\ ~last.body.unparsable
          b == last.body
      IN
      /\ ~last.result.thrown
      /\ last.result.valid
           <=> /\ answered
               /\ b.active
               /\ last.audience = "" \/ b.aud = last.audience
      /\ last.result.valid
           => last.result.userId =
                (IF b.id.sub # "" THEN b.id.sub
                 ELSE IF b.id.user_id # "" THEN b.id.user_id
                 ELSE b.id.username)
      /\ last.response = "not_ok"
           => last.result = Invalid("Token introspection failed")
      /\ (answered /\ ~b.active)
           => last.result = Invalid("Token is not active")
      /\ (answered /\ b.active /\ last.audience # ""
             /\ b.aud # last.audience)
           => last.result = Invalid("Invalid audience")

\* An opaque token whose introspection answered active, with the configured
\* audience, no sub, and both user_id and username: valid, userId = user_id.
C21_Witness ==
    /\ IntrospectionCall(last)
    /\ last.audience = "test-audience"
    /\ last.response = "ok" /\ ~last.body.unparsable
    /\ last.body.active /\ last.body.aud = "test-audience"
    /\ last.body.id = [sub |-> "", user_id |-> "user-id", username |-> "username"]
    /\ last.result = Valid("user-id")

\* A settled call for an opaque token the introspection endpoint has no
\* record of: the request was made, and whenever the endpoint answered with
\* a body, the body said active = false.
NoIntrospectionRecord(l) ==
    /\ l.op = "oauthValidate" /\ Len(l.token) # 3 /\ l.requests = 1
    /\ (l.response = "ok" /\ ~l.body.unparsable) => ~l.body.active

\* C22  For an opaque token with no matching introspection record,
\* validateToken returns {valid: false, error: "Token introspection failed"}
\* or {valid: false, error: "Token is not active"} for every transport
\* outcome of the introspection request, and never throws.
C22_UnknownOpaque ==
    NoIntrospectionRecord(last)
      => /\ ~last.result.thrown
         /\ last.result \in {Invalid("Token introspection failed"),
                             Invalid("Token is not active")}

\* C22 (amended)  For an opaque token with no matching introspection record,
\* validateToken never throws and returns valid = false with the error
\* "Token introspection failed" when the response is not OK, "Token is not
\* active" when it is OK, and "Token validation failed" when the request
\* fails (the fetch rejects or the body cannot be parsed).
C22_UnknownOpaqueAmended ==
    NoIntrospectionRecord(last)
      => /\ ~last.result.thrown
         /\ ~last.result.valid
         /\ last.response = "not_ok"
              => last.result = Invalid("Token introspection failed")
         /\ (last.response = "ok" /\ ~last.body.unparsable)
              => last.result = Invalid("Token is not active")
         /\ (last.response = "network_error"
               \/ (last.response = "ok" /\ last.body.unparsable))
              => last.result = Invalid("Token validation failed")

\* The introspection request for an opaque token failed on the network:
\* the call returned "Token validation failed".
C22_Witness ==
    /\ NoIntrospectionRecord(last)
    /\ last.requests = 1
    /\ last.response = "network_error"
    /\ last.result = Invalid("Token validation failed")

\* C23  Authentication middleware: a request without an Authorization header
\* starting with "Bearer " is answered 401 "unauthorized" without any
\* validateToken call; a request whose token validates as valid = false is
\* answered 401 "invalid_token"; in both cases next is not invoked and no
\* userId is attached; next is invoked, once, exactly when validation
\* returned valid = true, and then the request carries the validation's
\* userId and the middleware sends no response.
C23_Middleware ==
    last.op = "middleware" =>
      LET a == last.answer IN
      /\ ~HasBearer(last.header)
           => /\ a.status = 401 /\ a.error = "unauthorized"
              /\ a.nextCalls = 0 /\ a.userId = ""
              /\ ~last.validation.called
      /\ HasBearer(last.header)
           => /\ last.validation.called
              /\ ~last.validation.result.valid
                   => /\ a.status = 401 /\ a.error = "invalid_token"
                      /\ a.nextCalls = 0 /\ a.userId = ""
              /\ last.validation.result.valid
                   => /\ a.nextCalls = 1 /\ a.status = 0
                      /\ a.userId = last.validation.result.userId
      /\ a.nextCalls = 1
           <=> (HasBearer(last.header) /\ last.validation.result.valid)
      /\ a.nextCalls \in {0, 1}

\* The provider's middleware let a request with an issued token through,
\* with the userId of the grant minted at /callback.
C23_Witness ==
    /\ last.op = "middleware"
    /\ last.validator = "provider"
    /\ HasBearer(last.header)
    /\ last.validation.result.valid
    /\ last.answer.nextCalls = 1
    /\ last.answer.userId = "external-user"

\* The call log holds two consecutive validateToken calls on one token.
TwoCallsOnOneToken == Len(calls) = 2 /\ calls[1].token = calls[2].token

\* C24  Token validation is idempotent: two consecutive validateToken calls
\* on the same token, with no other store operation and no clock change in
\* between, return equal results (valid flag, userId and error) and the
\* second call leaves the store as the first left it, in OAuthProvider and
\* in BuiltinTokenValidator, for valid, unknown and expired tokens.
C24_Idempotent ==
    /\ last.op = "revalidate"
         => last.result = last.first /\ accessTokens = last.between
    /\ TwoCallsOnOneToken
         => calls[2].result = calls[1].result /\ calls[2].after = calls[1].after

\* C24 (amended)  Two consecutive validateToken calls on the same token, with
\* no other store operation and no clock change in between, return the same
\* valid flag and userId, and the second call leaves the store as the first
\* left it; the results are equal altogether except for an expired token in
\* BuiltinTokenValidator, where the first call answers "Token expired" and
\* the second "Token not found".
C24_IdempotentAmended ==
    /\ last.op = "revalidate"
         => last.result = last.first /\ accessTokens = last.between
    /\ TwoCallsOnOneToken
         => /\ calls[2].after = calls[1].after
            /\ calls[2].result.valid = calls[1].result.valid
            /\ IF calls[1].past
               THEN /\ calls[1].result = [valid |-> FALSE, error |-> "Token expired"]
                    /\ calls[2].result = [valid |-> FALSE, error |-> "Token not found"]
               ELSE calls[2].result = calls[1].result

\* BuiltinTokenValidator was asked twice in a row about an expired token:
\* both calls answered not valid, with different errors, and the second
\* call found the store as the first had left it, without the token.
C24_Witness ==
    /\ TwoCallsOnOneToken
    /\ calls[1].past
    /\ ~calls[1].result.valid /\ ~calls[2].result.valid
    /\ calls[1].result.error # calls[2].result.error
    /\ calls[2].after = calls[1].after
    /\ calls[1].token \notin DOMAIN calls[1].after

\* A POST /token body lacks one of the four parameters of the exchange.
MissingTokenParameter(b) ==
    b.code = 0 \/ b.code_verifier = "" \/ b.client_id = "" \/ b.redirect_uri = ""

\* The exchange a complete POST /token body asks for fails: the code is not
\* in the store (never stored, or already used), or the grant is expired,
\* or bound to another client or redirect_uri, or the verifier's digest is
\* not the grant's challenge.
ExchangeFails(b) ==
    \/ b.code \notin DOMAIN authorizationCodes
    \/ LET g == authorizationCodes[b.code] IN
         \/ g.expiresAt < now
         \/ g.clientId # b.client_id
         \/ g.redirectUri # b.redirect_uri
         \/ S256(b.code_verifier) # g.codeChallenge

\* C25  Token endpoint error mapping: POST /token with a grant_type other
\* than authorization_code is answered 400 unsupported_grant_type; with
\* code, code_verifier, client_id or redirect_uri missing, 400
\* invalid_request; with an exchange that fails (unknown, expired or
\* already used code, PKCE mismatch, client or redirect mismatch), 400
\* invalid_grant; the first two answers change neither the grant store nor
\* the token store; any other request is answered 200.
C25_TokenErrors ==
    [][\A b \in TokenBodies :
         TokenRequest(b)
           => /\ last'.op = "token"
              /\ b.grant_type # "authorization_code"
                   => /\ last'.status = 400
                      /\ last'.error = "unsupported_grant_type"
                      /\ authorizationCodes' = authorizationCodes
                      /\ accessTokens' = accessTokens
              /\ (b.grant_type = "authorization_code" /\ MissingTokenParameter(b))
                   => /\ last'.status = 400
                      /\ last'.error = "invalid_request"
                      /\ authorizationCodes' = authorizationCodes
                      /\ accessTokens' = accessTokens
              /\ (b.grant_type = "authorization_code" /\ ~MissingTokenParameter(b))
                   => IF ExchangeFails(b)
                      THEN /\ last'.status = 400
                           /\ last'.error = "invalid_grant"
                           /\ accessTokens' = accessTokens
                      ELSE last'.status = 200 /\ last'.error = ""]_vars

\* POST /token presented the right verifier and redirect_uri with another
\* client_id than the live grant's and was answered 400 invalid_grant.
C25_Witness ==
    /\ last.op = "token" /\ last.status = 400 /\ last.error = "invalid_grant"
    /\ SawLiveGrant(last)
    /\ last.seen.data.clientId # last.clientId
    /\ last.seen.data.redirectUri = last.redirectUri
    /\ S256(last.codeVerifier) = last.seen.data.codeChallenge
    /\ last.code \in DOMAIN authorizationCodes

\* Every access token ever issued whose lifetime has not passed is in the
\* store with the record it was created with, and validates as valid.
TokenKept ==
    \A t \in DOMAIN issued :
        issued[t].at + TokenTTL >= now
          => /\ t \in DOMAIN accessTokens
             /\ accessTokens[t] = issued[t].record
             /\ ValidateResult(t) = [valid |-> TRUE,
                                     userId |-> issued[t].record.userId,
                                     scope |-> issued[t].record.scope]

\* C26  An AccessTokenRecord, once created, stays in the store with its
\* userId, scope and expiresAt unchanged and keeps validating as valid until
\* its expiresAt passes or it is explicitly revoked (no authorize, callback,
\* exchange, store or sweep operation removes or alters it); and once a
\* revocation request for a token has been answered 200, validateToken on
\* that token returns valid = false.
C26_TokenLifetime ==
    /\ TokenKept
    /\ (last.op = "revoke" /\ last.status = 200)
          => ~ValidateResult(last.token).valid

\* A logged validateToken call on a token that storeToken has stored, made
\* before (not after) the expiresAt last stored for it has passed.
CalledBeforeExpiry(c) ==
    c.token \in DOMAIN stored /\ ~(stored[c.token].expiresAt < now)
CalledAfterExpiry(c) ==
    c.token \in DOMAIN stored /\ stored[c.token].expiresAt < now

\* Once the expiresAt stored for a token has passed, the record's timer has
\* removed it: no validateToken call finds an expired record, and each
\* answers "Token not found".
RemovedOnceExpired ==
    \A k \in 1..Len(calls) :
        CalledAfterExpiry(calls[k])
          => /\ ~calls[k].stored
             /\ calls[k].result = [valid |-> FALSE, error |-> "Token not found"]

\* C27  BuiltinTokenValidator automatic expiry, the part before expiry: a
\* token stored with storeToken(token, userId, expiresAt) validates as valid
\* with that userId as long as expiresAt has not passed (the part after
\* expiry is RemovedOnceExpired).
C27_ValidBeforeExpiry ==
    \A k \in 1..Len(calls) :
        CalledBeforeExpiry(calls[k])
          => calls[k].result =
               [valid |-> TRUE, userId |-> stored[calls[k].token].userId]

\* The environment satisfies the schema's enums, and the requirements of its
\* AUTH_MODE (unset is "none").
EnumsValid(e) ==
    /\ e.AUTH_MODE \in {"", "none", "full", "resource_server"}
    /\ e.NODE_ENV \in {"", "development", "production", "test"}
    /\ e.LOG_LEVEL \in {"", "error", "warn", "info", "debug"}
ModeSatisfied(e) ==
    /\ e.AUTH_MODE = "full"
         => /\ e.OAUTH_ISSUER # "" /\ e.OAUTH_CLIENT_ID # ""
            /\ e.OAUTH_CLIENT_SECRET # ""
    /\ e.AUTH_MODE = "resource_server"
         => e.OAUTH_ISSUER # "" /\ e.OAUTH_AUDIENCE # ""

C29_ConfigCached ==
    [][config.state = "loaded"
         => /\ config' = config
            /\ GetConfig
                 => /\ last'.outcome = "returned"
                    /\ last'.config = config.value]_vars

\* getConfig returned the configuration loaded earlier (AUTH_MODE none)
\* although the environment now has an AUTH_MODE outside the enum.
C29_Witness ==
    /\ last.op = "getConfig" /\ last.cached
    /\ last.outcome = "returned"
    /\ last.config.AUTH_MODE = "none"
    /\ env.AUTH_MODE = "invalid"
    /\ config = Loaded(last.config)

\* A recorded exchange call found its grant in the store, at an instant equal
\* to the grant's expiresAt.
SawGrantAtExpiry(l) ==
    ExchangeCalled(l) /\ l.seen.found /\ l.seen.data.expiresAt = now

\* C30 as stated  Expiry boundary in exchange: an exchange succeeds only when
\* the grant's expiresAt is strictly greater than the current time; when the
\* current time equals expiresAt the call returns null and deletes the grant.
C30_StrictBoundary ==
    (ExchangeCalled(last) /\ last.seen.found) =>
      /\ ~last.result.isNull => last.seen.data.expiresAt > now
      /\ last.seen.data.expiresAt = now
           => /\ last.result.isNull
              /\ last.code \notin DOMAIN authorizationCodes

\* C30  Expiry boundary in exchange, as the code compares: an exchange
\* succeeds only when the grant's expiresAt is not before the current time;
\* a grant whose expiresAt is before the current time makes the call return
\* null and is deleted; at the instant expiresAt itself the grant is not
\* expired: the call succeeds and consumes the grant exactly when it presents
\* the grant's client_id and redirect_uri and the right verifier, and
\* otherwise returns null and leaves the grant in the store.
C30_Boundary ==
    (ExchangeCalled(last) /\ last.seen.found) =>
      /\ ~last.result.isNull => last.seen.data.expiresAt >= now
      /\ last.seen.data.expiresAt < now
           => /\ last.result.isNull
              /\ last.code \notin DOMAIN authorizationCodes
      /\ last.seen.data.expiresAt = now
           => /\ ~last.result.isNull
                   <=> /\ SawBoundGrant(last)
                       /\ S256(last.codeVerifier) = last.seen.data.codeChallenge
              /\ ~last.result.isNull
                   => /\ last.code \notin DOMAIN authorizationCodes
                      /\ last.result.accessToken \in DOMAIN accessTokens
              /\ last.result.isNull
                   => Lookup(authorizationCodes, last.code) = last.seen

\* An exchange at the instant expiresAt of its grant, with the right
\* verifier and binding, returned a token descriptor and consumed the grant.
C30_Witness ==
    /\ SawGrantAtExpiry(last)
    /\ ~last.result.isNull
    /\ last.result.accessToken \in DOMAIN accessTokens
    /\ last.code \notin DOMAIN authorizationCodes

\* C31  Check order in exchange: existence, expiry, client_id / redirect_uri
\* binding, PKCE, stopping at the first failure.  An unknown code is answered
\* null as an invalid code; an expired grant is deleted and answered null as
\* expired whatever client_id, redirect_uri and verifier come with it, and no
\* verifier is evaluated; an unexpired grant presented with a wrong client_id
\* or redirect_uri is answered null as a binding failure without its verifier
\* being evaluated, and stays in the store; only a bound, unexpired grant has
\* its verifier evaluated.
C31_CheckOrder ==
    ExchangeCalled(last) =>
      /\ ~last.seen.found
           => /\ last.result.isNull
              /\ last.trace.log = "Invalid authorization code"
              /\ ~last.trace.pkceEvaluated
      /\ (last.seen.found /\ last.seen.data.expiresAt < now)
           => /\ last.result.isNull
              /\ last.trace.log = "Expired authorization code"
              /\ ~last.trace.pkceEvaluated
              /\ last.code \notin DOMAIN authorizationCodes
      /\ (last.seen.found /\ last.seen.data.expiresAt >= now
             /\ ~SawBoundGrant(last))
           => /\ last.result.isNull
              /\ last.trace.log = "Authorization code validation failed"
              /\ ~last.trace.pkceEvaluated
              /\ Lookup(authorizationCodes, last.code) = last.seen
      /\ (last.seen.found /\ last.seen.data.expiresAt >= now
             /\ SawBoundGrant(last))
           => /\ last.trace.pkceEvaluated
              /\ last.result.isNull
                   <=> last.trace.log = "PKCE verification failed"

\* An exchange with a wrong client and a wrong verifier on an unexpired grant
\* was rejected by the binding check, the verifier left unevaluated.
C31_Witness ==
    /\ ExchangeCalled(last)
    /\ last.seen.found /\ last.seen.data.expiresAt >= now
    /\ last.seen.data.clientId # last.clientId
    /\ S256(last.codeVerifier) # last.seen.data.codeChallenge
    /\ last.result.isNull
    /\ last.trace.log = "Authorization code validation failed"
    /\ ~last.trace.pkceEvaluated

\* A recorded exchange call returned null for another reason than expiry:
\* the code was unknown, or its grant was not expired.
RejectedUnexpired(l) ==
    /\ ExchangeCalled(l)
    /\ l.result.isNull
    /\ l.seen.found => l.seen.data.expiresAt >= now

\* The grant under code is redeemed by a call presenting p now.
Redeems(code, p) == ExchangeOutcome(code, p[1], p[2], p[3]) = "issued"

\* C32  A failed exchange that is not due to expiry changes nothing: when an
\* exchange returns null because the code is unknown, the client_id or
\* redirect_uri does not match or the verifier is wrong, the grant store and
\* the access-token store are the same after the call as before it, and a
\* call that presents the grant's client_id, redirect_uri and the verifier
\* of its challenge still redeems the grant.
C32_RejectionKeepsGrant ==
    /\ [][(Idle /\ RejectedUnexpired(last'))
            => /\ authorizationCodes' = authorizationCodes
               /\ accessTokens' = accessTokens]_vars
    /\ [](RejectedUnexpired(last) /\ last.seen.found
            => /\ Lookup(authorizationCodes, last.code) = last.seen
               /\ \A p \in Presented :
                     (/\ p[2] = last.seen.data.clientId
                      /\ p[3] = last.seen.data.redirectUri
                      /\ S256(p[1]) = last.seen.data.codeChallenge)
                       => Redeems(last.code, p))

\* An exchange with the wrong verifier on an unexpired, bound grant returned
\* null, and the grant is still redeemed by the right verifier.
C32_Witness ==
    /\ RejectedUnexpired(last)
    /\ last.seen.found /\ SawBoundGrant(last)
    /\ S256(last.codeVerifier) # last.seen.data.codeChallenge
    /\ \E p \in Presented : Redeems(last.code, p)

\* Every PendingAuthRequest other than the one under requestId is in the
\* store after the step as it was before it.
OthersUntouched(requestId) ==
    \A r \in DOMAIN pendingRequests \ {requestId} :
        /\ r \in DOMAIN pendingRequests'
        /\ pendingRequests'[r] = pendingRequests[r]

\* C33  The leg to the IdP uses the server's own PKCE pair end to end: the
\* redirect of an accepted /authorize carries the requestId as state and, as
\* code_challenge, the S256 digest of the verifier generated for and stored
\* under that requestId, never the client's code_challenge; the verifier a
\* /callback sends to the IdP's token endpoint is the externalCodeVerifier
\* stored under the incoming state by that /authorize; and, with several
\* flows in flight, no step of a /callback removes or changes the
\* PendingAuthRequest of another state.
C33_IdpLeg ==
    /\ [][\A q \in AuthorizeQueries :
            (Authorize(q) /\ last'.status = 302)
              => LET requestId == last'.state IN
                 /\ requestId \notin DOMAIN pendingRequests
                 /\ requestId \in DOMAIN pendingRequests'
                 /\ last'.code_challenge =
                       S256(pendingRequests'[requestId].externalCodeVerifier)
                 /\ last'.code_challenge # q.code_challenge
                 /\ last'.code_challenge_method = "S256"
                 /\ pendingRequests'[requestId].externalCodeVerifier =
                       ExternalCodeVerifier(requestId)
                 /\ OthersUntouched(requestId)]_vars
    /\ [][\A p \in CbIds : \A q \in CallbackQueries :
            CallbackStart(p, q)
              => /\ OthersUntouched(q.state)
                 /\ cb'[p].pc = "awaiting"
                      => /\ cb'[p].requestId = q.state
                         /\ cb'[p].originalRequest = pendingRequests[q.state]]_vars
    /\ [][\A p \in CbIds : \A o \in IdpOutcomes :
            CallbackResume(p, o)
              => /\ OthersUntouched(cb[p].requestId)
                 /\ last'.requestId = cb[p].requestId
                 /\ last'.idpVerifier = ExternalCodeVerifier(cb[p].requestId)
                 /\ last'.idpVerifier \notin
                       {FlowQuery(f).code_challenge : f \in Flows}]_vars

\* With the requests of both flows pending, the /callback of the second
\* flow sent the IdP the verifier generated for the second flow and minted
\* its grant, and the first flow's request is still pending.
C33_Witness ==
    /\ last.op = "callback" /\ last.status = 302
    /\ last.requestId = 2
    /\ last.idpVerifier = ExternalCodeVerifier(2)
    /\ 1 \in DOMAIN pendingRequests
    /\ pendingRequests[1].externalCodeVerifier = ExternalCodeVerifier(1)
    /\ 2 \notin DOMAIN pendingRequests

\* What the claim expects of a query: the error and description of the first
\* check it fails, response_type first, then client_id / redirect_uri, then
\* PKCE ("" when it passes all three).
FirstFailedCheck(q) ==
    IF q.response_type # "code"
    THEN <<"unsupported_response_type", "Only 'code' response type is supported">>
    ELSE IF q.client_id = "" \/ q.redirect_uri = ""
    THEN <<"invalid_request",
           "Missing required parameters: client_id, redirect_uri">>
    ELSE IF q.code_challenge = "" \/ q.code_challenge_method # "S256"
    THEN <<"invalid_request", "PKCE with S256 is required">>
    ELSE <<"", "">>

C35_UnconditionalInsert ==
    /\ [][\A code \in ApiCodes : \A g \in ApiGrants :
            ApiStoreAuthorizationCode(code, g)
              => /\ DOMAIN authorizationCodes' =
                      DOMAIN authorizationCodes \cup {code}
                 /\ [authorizationCodes'[code] EXCEPT !.gid = g.gid] = g
                 /\ \A c \in DOMAIN authorizationCodes \ {code} :
                       authorizationCodes'[c] = authorizationCodes[c]
                 /\ accessTokens' = accessTokens]_vars
    /\ [](last.op = "store"
            => /\ last.code \in DOMAIN authorizationCodes
               /\ \A p \in Presented :
                     (/\ authorizationCodes[last.code].expiresAt >= now
                      /\ p[2] = authorizationCodes[last.code].clientId
                      /\ p[3] = authorizationCodes[last.code].redirectUri
                      /\ S256(p[1]) = authorizationCodes[last.code].codeChallenge)
                       => Redeems(last.code, p))

\* A grant was stored under a code that had been redeemed, and the code is
\* redeemable again.
C35_Witness ==
    /\ last.op = "store"
    /\ last.wasRedeemed /\ ~last.seen.found
    /\ last.code \in DOMAIN authorizationCodes
    /\ \E p \in Presented : Redeems(last.code, p)

\* A recorded call validated a bearer string against the OAuthProvider and
\* found it valid: the string.
AcceptedBearer(l) ==
    IF l.op \in {"validate", "revalidate"} /\ l.result.valid THEN {l.token}
    ELSE IF l.op = "middleware" /\ l.validator = "provider"
            /\ l.answer.nextCalls = 1
    THEN {BearerToken(l.header)}
    ELSE {}

\* C36  Token provenance: in every reachable state each record of the
\* access-token store is the record a successful exchangeAuthorizationCode
\* created under that token; the number of access tokens ever issued does
\* not exceed the number of storeAuthorizationCode calls; and a bearer
\* string that no successful exchange has returned never validates as valid.
C36_Provenance ==
    /\ \A t \in DOMAIN accessTokens :
          t \in DOMAIN issued /\ accessTokens[t] = issued[t].record
    /\ Cardinality(DOMAIN issued) = nTokens
    /\ nTokens <= nGrants
    /\ AcceptedBearer(last) \subseteq DOMAIN issued

\* After every stored grant has been redeemed for a token, a bearer string
\* that no exchange returned was presented and found invalid.
C36_Witness ==
    /\ last.op = "validate" /\ last.token = "unknown"
    /\ ~last.result.valid
    /\ nTokens = 2 /\ nGrants = 2
    /\ Cardinality(DOMAIN accessTokens) = 2

\* Timer t was armed by a storeToken call after which the same token was
\* stored again with a later expiry (the later call's timer is due later),
\* and the record now stored under the token has not expired.
StaleTimer(t) ==
    /\ t \in timers
    /\ \E u \in timers :
          u.token = t.token /\ u.id > t.id /\ u.fireAt > t.fireAt
    /\ t.token \in DOMAIN tokens
    /\ tokens[t.token].expiresAt >= now

\* C37  BuiltinTokenValidator re-store: when storeToken is called twice for
\* one token string, the second time with a later expiresAt, the expiry timer
\* armed by the first call does not remove the re-stored record: when it
\* fires before the later expiresAt, the record stays in the store and the
\* token still validates as valid for the re-stored userId.
C37_RestoreKept ==
    [][\A t \in timers :
        (StaleTimer(t) /\ TimerFire(t))
          => /\ t.token \in DOMAIN tokens'
             /\ tokens'[t.token] = tokens[t.token]
             /\ tokens'[t.token] = stored[t.token]]_vars

\* C38 as stated  Token classification: validateToken takes the JWT path
\* (a JWKS verification is attempted) if and only if the token consists of
\* exactly three dot-separated base64url segments; every other string goes
\* directly to introspection with no JWKS verification attempt.
C38_Classification ==
    last.op = "oauthValidate" =>
      (last.jwt # "none" <=> (Len(last.token) = 3 /\ WellFormed(last.token)))

\* C38  Token classification, as the code decides it: validateToken takes
\* the JWT path if and only if splitting the token at "." gives exactly three
\* segments, whether or not they are base64url; every other string goes
\* directly to introspection (one request, unless the issuer is no URL and
\* the call fails before it) with no JWKS verification attempt.
C38_ClassificationBySegments ==
    last.op = "oauthValidate" =>
      /\ last.jwt # "none" <=> Len(last.token) = 3
      /\ Len(last.token) # 3
           => \/ last.requests = 1
              \/ /\ last.requests = 0
                 /\ last.result = Invalid("Token validation failed")

\* A three-segment token with a segment that is not base64url went through
\* jwtVerify, which found it invalid, and no introspection request was made.
C38_Witness ==
    /\ last.op = "oauthValidate"
    /\ Len(last.token) = 3 /\ ~WellFormed(last.token)
    /\ last.jwt = "JWTInvalid"
    /\ last.requests = 0
    /\ last.result = Invalid("Invalid token")

\* C39  Mode selection for the authentication middleware: the middleware
\* createAuthenticationMiddleware returns is a pass-through only when
\* AUTH_MODE is none; in resource_server and in full mode it answers every
\* request that lacks a bearer header, or whose bearer token is not valid,
\* with 401 and does not pass it on.
C39_ModeSelection ==
    last.op = "request" =>
      /\ last.middleware = "passthrough" => last.mode = "none"
      /\ (/\ last.mode \in {"resource_server", "full"}
          /\ (~HasBearer(last.header) \/ ~last.validation.valid))
           => /\ last.answer.status = 401
              /\ last.answer.nextCalls = 0

\* C40  With authentication enabled, no request is handed to an MCP session
\* transport (transport.handleRequest) unless it has passed bearer-token
\* validation in the authentication middleware, whatever its method and
\* whether or not it carries an existing mcp-session-id.
C40_NoTransportWithoutBearer ==
    (last.op = "mcp" /\ last.enableAuth /\ last.handled) => last.validated
====
